---- MODULE Spec2Model ----
(***************************************************************************)
(* FileTreeStore (nuclide file tree): the Flux store that caches directory *)
(* listings, de-duplicates asynchronous fetches, keeps watch subscriptions *)
(* per directory key, purges state of removed directories and roots, and   *)
(* batches its 'change' notifications.                                     *)
(*                                                                         *)
(* A node key is a string; it is modelled as the sequence of its           *)
(* characters, so that String.startsWith is the prefix test on sequences.  *)
(* The store's _data object is the record S; every method of the store is  *)
(* an operator from a record to a record, composed in source order, and    *)
(* every entry point (a dispatched action, a query with a side effect, a   *)
(* promise settling, a watch callback, the setImmediate timer) is one      *)
(* action.                                                                 *)
(*                                                                         *)
(* LocalClangService (nuclide clang): the service that spawns the clang    *)
(* server process on its first request and keeps the promise of the        *)
(* connection. It has its own variables and its own specification,         *)
(* ClangSpec; the specifications of the store leave its variables alone.   *)
(***************************************************************************)
EXTENDS Naturals, Sequences, FiniteSets, TLC

VARIABLES
  childKeyMap,         \* key -> list of child keys
  isDirtyMap,          \* set of the keys whose isDirtyMap value is true
  expandedKeysByRoot,  \* root -> set of keys
  trackedNode,         \* <<>> (null) or <<[rootKey, nodeKey]>>
  previouslyExpanded,  \* root -> (key -> list of keys)
  isLoadingMap,        \* key -> promise id
  rootKeys,            \* list of keys
  selectedKeysByRoot,  \* root -> ordered set of keys (a list without repeats)
  subscriptionMap,     \* key -> handle id
  vcsStatusesByRoot,   \* root -> (key -> status code)
  timer,               \* number of setImmediate callbacks of _set that are pending
  emits,               \* number of 'change' events emitted by the last step
  promises,            \* listing promises not yet settled: [id, key]
  live,                \* watch handles acquired and not disposed: [id, key]
  redisposed,          \* handles on which dispose() was called again
  steps,               \* number of external calls made so far
  _asyncConnection,    \* LocalClangService: 0 (null) or the connection promise
  connections,         \* the connection promises made, by id: [state, child, nulled]
  requests,            \* the _makeRequest calls made: [pc, connection, stream]
  _writableStream,     \* 0 (null) or the connection whose pipe is written to
  _nextRequestId

\* The fields of the FileTreeStore and what is in flight for it.
storeVars == <<childKeyMap, isDirtyMap, expandedKeysByRoot, trackedNode,
               previouslyExpanded, isLoadingMap, rootKeys, selectedKeysByRoot,
               subscriptionMap, vcsStatusesByRoot, timer, emits, promises, live,
               redisposed, steps>>

\* The fields of the LocalClangService and what is in flight for it.
clangVars == <<_asyncConnection, connections, requests, _writableStream,
               _nextRequestId>>

vars == <<storeVars, clangVars>>

\* The snapshot fields of _data (StoreData).
dataVars == <<childKeyMap, isDirtyMap, expandedKeysByRoot, trackedNode,
              previouslyExpanded, isLoadingMap, rootKeys, selectedKeysByRoot,
              subscriptionMap, vcsStatusesByRoot>>

----------------------------------------------------------------------------
\* Bounds of the model.

\* External calls (dispatches, queries, loadData, reset, watch callbacks)
\* made in one behaviour; promise settlements and the timer are not counted.
MaxSteps == 2

\* Used to ensure the version we serialized is the one we are deserializing.
VERSION == 1

----------------------------------------------------------------------------
\* Node keys.

A   == <<"a", "/">>
AD  == <<"a", "/", "d", "/">>
ADE == <<"a", "/", "d", "/", "e", "/">>
ADG == <<"a", "/", "d", "/", "g">>
AF  == <<"a", "/", "f">>

Keys == {A, AD, ADE, ADG, AF}

\* Absent key (undefined / null where a key is expected).
NoKey == <<>>

\* String.prototype.startsWith
startsWith(key, prefix) ==
  /\ Len(prefix) <= Len(key)
  /\ SubSeq(key, 1, Len(prefix)) = prefix

\* FileTreeHelpers.isDirKey: container keys end in the separator.
isDirKey(key) == Len(key) > 0 /\ key[Len(key)] = "/"

DirKeys == {k \in Keys : isDirKey(k)}

\* Listings in flight at one time, as many as there are directories: a call
\* that would start more is not made.
MaxPending == Cardinality(DirKeys)

\* FileTreeHelpers.getDirectoryByKey: a Directory object for a container key,
\* nothing for any other key.
getDirectoryByKey(key) == IF isDirKey(key) THEN key ELSE NoKey

\* The listings FileTreeHelpers.fetchChildren can resolve to.
Listings(key) ==
  IF key = A THEN {<<AD, AF>>, <<AF>>}
  ELSE IF key = AD THEN {<<ADE, ADG>>}
  ELSE {<<>>}

----------------------------------------------------------------------------
\* Plain objects used as maps, and lists used as ordered sets.

EmptyMap == <<>>

Has(m, k) == k \in DOMAIN m

Get(m, k, default) == IF k \in DOMAIN m THEN m[k] ELSE default

Put(m, k, v) == [x \in (DOMAIN m) \cup {k} |-> IF x = k THEN v ELSE m[x]]

Del(m, k) == [x \in (DOMAIN m) \ {k} |-> m[x]]

Range(q) == {q[i] : i \in 1..Len(q)}

\* The value undefined stored under a key of childKeyMap (exportData stores it
\* for an expanded key that has no cached children).
Undefined == <<NoKey>>

\* m[k] is neither missing nor undefined.
Truthy(m, k) == k \in DOMAIN m /\ m[k] # Undefined

\* Immutable.OrderedSet.delete
SeqDelete(q, k) == SelectSeq(q, LAMBDA x : x # k)

\* Smallest id not used by the records of set c.
FreshId(c) == CHOOSE n \in 1..(Cardinality(c) + 1) : \A r \in c : r.id # n

\* The order in which forEach visits the members of a set.
RECURSIVE SetToSeq(_)
SetToSeq(c) ==
  IF c = {} THEN <<>>
  ELSE LET x == CHOOSE y \in c : TRUE
       IN <<x>> \o SetToSeq(c \ {x})

\* new Immutable.OrderedSet(keys): the keys of the array in the order of their
\* first occurrence.
RECURSIVE ImmutableOrderedSet(_)
ImmutableOrderedSet(keys) ==
  IF keys = <<>> THEN <<>>
  ELSE LET front == ImmutableOrderedSet(SubSeq(keys, 1, Len(keys) - 1))
           last == keys[Len(keys)]
       IN IF last \in Range(front) THEN front ELSE Append(front, last)

----------------------------------------------------------------------------
\* The store as one record.

S == [childKeyMap |-> childKeyMap, isDirtyMap |-> isDirtyMap,
      expandedKeysByRoot |-> expandedKeysByRoot, trackedNode |-> trackedNode,
      previouslyExpanded |-> previouslyExpanded, isLoadingMap |-> isLoadingMap,
      rootKeys |-> rootKeys, selectedKeysByRoot |-> selectedKeysByRoot,
      subscriptionMap |-> subscriptionMap,
      vcsStatusesByRoot |-> vcsStatusesByRoot,
      timer |-> timer, emits |-> 0, promises |-> promises, live |-> live,
      redisposed |-> redisposed]

\* The step installs record s as the store.
Becomes(s) ==
  /\ childKeyMap' = s.childKeyMap
  /\ isDirtyMap' = s.isDirtyMap
  /\ expandedKeysByRoot' = s.expandedKeysByRoot
  /\ trackedNode' = s.trackedNode
  /\ previouslyExpanded' = s.previouslyExpanded
  /\ isLoadingMap' = s.isLoadingMap
  /\ rootKeys' = s.rootKeys
  /\ selectedKeysByRoot' = s.selectedKeysByRoot
  /\ subscriptionMap' = s.subscriptionMap
  /\ vcsStatusesByRoot' = s.vcsStatusesByRoot
  /\ timer' = s.timer
  /\ emits' = s.emits
  /\ promises' = s.promises
  /\ live' = s.live
  /\ redisposed' = s.redisposed
  /\ UNCHANGED clangVars

\* FileTreeStore._getDefaults, as the fields of s it replaces.
getDefaults(s) ==
  [s EXCEPT !.childKeyMap = EmptyMap, !.isDirtyMap = {},
            !.expandedKeysByRoot = EmptyMap, !.trackedNode = <<>>,
            !.previouslyExpanded = EmptyMap, !.isLoadingMap = EmptyMap,
            !.rootKeys = <<>>, !.selectedKeysByRoot = EmptyMap,
            !.subscriptionMap = EmptyMap, !.vcsStatusesByRoot = EmptyMap]

\* FileTreeStore._set. setProperty(this._data, key, value) returns the same
\* object when the old value is identical (===) to the new one: `fresh` says
\* that value is a newly allocated object, identical to nothing stored.
\* clearImmediate(this._timer): _timer is the callback scheduled last, the one
\* to fire last of those pending.
clearImmediate(pending) == IF pending > 0 THEN pending - 1 ELSE 0

\* A _set that schedules without cancelling what it scheduled before.
setWithoutClear(s, key, value, fresh, flush) ==
  IF ~fresh /\ s[key] = value THEN s
  ELSE LET s1 == [s EXCEPT ![key] = value]
       IN IF flush
          THEN [s1 EXCEPT !.emits = @ + 1]
          ELSE [s1 EXCEPT !.timer = @ + 1]

\* A _set that cancels the pending callback and schedules none.
setAndForget(s, key, value, fresh, flush) ==
  IF ~fresh /\ s[key] = value THEN s
  ELSE LET s1 == [s EXCEPT ![key] = value]
       IN IF flush
          THEN [s1 EXCEPT !.timer = clearImmediate(@), !.emits = @ + 1]
          ELSE [s1 EXCEPT !.timer = clearImmediate(@)]

_set(s, key, value, fresh, flush) ==
  IF ~fresh /\ s[key] = value THEN s
  ELSE LET s1 == [s EXCEPT ![key] = value]
       IN IF flush
          THEN [s1 EXCEPT !.timer = clearImmediate(@), !.emits = @ + 1]
          ELSE [s1 EXCEPT !.timer = clearImmediate(@) + 1]

\* FileTreeStore.getRootForKey: the first root that is a prefix of nodeKey.
getRootForKey(s, nodeKey) ==
  LET hits == {i \in 1..Len(s.rootKeys) : startsWith(nodeKey, s.rootKeys[i])}
  IN IF hits = {} THEN NoKey
     ELSE s.rootKeys[CHOOSE i \in hits : \A j \in hits : i <= j]

isRootKey(s, nodeKey) == nodeKey \in Range(s.rootKeys)

_getExpandedKeys(s, rootKey) == Get(s.expandedKeysByRoot, rootKey, {})

isExpanded(s, rootKey, nodeKey) == nodeKey \in _getExpandedKeys(s, rootKey)

_getLoading(s, nodeKey) == Get(s.isLoadingMap, nodeKey, 0)

isLoading(s, rootKey, nodeKey) == _getLoading(s, nodeKey) # 0

_setExpandedKeys(s, rootKey, expandedKeys) ==
  _set(s, "expandedKeysByRoot", Put(s.expandedKeysByRoot, rootKey, expandedKeys),
       FALSE, FALSE)

\* selectedKeys is fresh when it comes from a payload and is not the empty
\* OrderedSet, which Immutable keeps as one shared object.
_setSelectedKeys(s, rootKey, selectedKeys, fresh) ==
  LET s1 == _set(s, "trackedNode", <<>>, FALSE, FALSE)
  IN _set(s1, "selectedKeysByRoot",
          Put(s1.selectedKeysByRoot, rootKey, selectedKeys), fresh, FALSE)

_deleteSelectedKeys(s, rootKey) ==
  _set(s, "selectedKeysByRoot", Del(s.selectedKeysByRoot, rootKey), FALSE, FALSE)

----------------------------------------------------------------------------
\* Loading state and the tracked node.

_setLoading(s, nodeKey, value) ==
  _set(s, "isLoadingMap", Put(s.isLoadingMap, nodeKey, value), FALSE, FALSE)

_checkTrackedNode(s) ==
  IF s.trackedNode # <<>> /\ DOMAIN s.isLoadingMap = {}
  THEN _set(s, "trackedNode", <<>>, FALSE, FALSE)
  ELSE s

_clearLoading(s, nodeKey) ==
  _checkTrackedNode(
    _set(s, "isLoadingMap", Del(s.isLoadingMap, nodeKey), FALSE, FALSE))

\* A fetch that does not look for a pending promise.
fetchChildKeysAgain(s, nodeKey) ==
  LET promise == [id |-> FreshId(s.promises), key |-> nodeKey]
  IN _setLoading([s EXCEPT !.promises = @ \cup {promise}], nodeKey, promise.id)

\* FileTreeStore._fetchChildKeys, up to the return of the promise: the call of
\* FileTreeHelpers.fetchChildren is a new member of promises.
_fetchChildKeys(s, nodeKey) ==
  IF _getLoading(s, nodeKey) # 0 THEN s
  ELSE LET promise == [id |-> FreshId(s.promises), key |-> nodeKey]
       IN _setLoading([s EXCEPT !.promises = @ \cup {promise}],
                      nodeKey, promise.id)

_onDirectoryChange(s, nodeKey) == _fetchChildKeys(s, nodeKey)

----------------------------------------------------------------------------
\* Watch subscriptions.

\* Disposable.dispose on the handle stored for nodeKey.
dispose(s, id, nodeKey) ==
  LET handle == [id |-> id, key |-> nodeKey]
  IN IF handle \in s.live
     THEN [s EXCEPT !.live = @ \ {handle}]
     ELSE [s EXCEPT !.redisposed = @ \cup {handle}]

\* FileTreeStore._addSubscription; watch is what directory.onDidChange does:
\* "ok" returns a handle, "throw" throws.
_addSubscription(s, nodeKey, watch) ==
  IF getDirectoryByKey(nodeKey) = NoKey THEN s
  ELSE LET s1 == _set(s, "isDirtyMap", s.isDirtyMap \ {nodeKey}, FALSE, FALSE)
       IN IF Has(s1.subscriptionMap, nodeKey) THEN s1
          ELSE IF watch = "throw" THEN s1
          ELSE LET subscription == [id |-> FreshId(s1.live), key |-> nodeKey]
                   s2 == [s1 EXCEPT !.live = @ \cup {subscription}]
               IN _set(s2, "subscriptionMap",
                       Put(s2.subscriptionMap, nodeKey, subscription.id),
                       FALSE, FALSE)

\* A release that forgets to look at the other roots.
removeSubscriptionAlways(s, rootKey, nodeKey) ==
  IF ~Has(s.subscriptionMap, nodeKey) THEN s
  ELSE LET s1 == dispose(s, s.subscriptionMap[nodeKey], nodeKey)
           s2 == _set(s1, "subscriptionMap", Del(s1.subscriptionMap, nodeKey),
                      FALSE, FALSE)
       IN _set(s2, "isDirtyMap", s2.isDirtyMap \cup {nodeKey}, FALSE, FALSE)

_removeSubscription(s, rootKey, nodeKey) ==
  IF ~Has(s.subscriptionMap, nodeKey) THEN s
  ELSE LET hasRemainingSubscribers ==
             \E i \in 1..Len(s.rootKeys) :
               /\ s.rootKeys[i] # rootKey
               /\ isExpanded(s, s.rootKeys[i], nodeKey)
       IN IF hasRemainingSubscribers THEN s
          ELSE LET s1 == dispose(s, s.subscriptionMap[nodeKey], nodeKey)
                   s2 == _set(s1, "subscriptionMap",
                              Del(s1.subscriptionMap, nodeKey), FALSE, FALSE)
               IN _set(s2, "isDirtyMap", s2.isDirtyMap \cup {nodeKey},
                       FALSE, FALSE)

\* A release of every root that leaves the disposed handle in the map.
removeAllSubscriptionsKeepEntry(s, nodeKey) ==
  IF ~Has(s.subscriptionMap, nodeKey) THEN s
  ELSE dispose(s, s.subscriptionMap[nodeKey], nodeKey)

_removeAllSubscriptions(s, nodeKey) ==
  IF ~Has(s.subscriptionMap, nodeKey) THEN s
  ELSE LET s1 == dispose(s, s.subscriptionMap[nodeKey], nodeKey)
       IN _set(s1, "subscriptionMap", Del(s1.subscriptionMap, nodeKey),
               FALSE, FALSE)

----------------------------------------------------------------------------
\* Purging.

\* The loop of _purgeDirectory over expandedKeysByRoot: roots is what is left
\* of Object.keys, snapshot the map read before the loop.
RECURSIVE purgeExpanded(_, _, _, _)
purgeExpanded(s, nodeKey, snapshot, roots) ==
  IF roots = <<>> THEN s
  ELSE LET rootKey == Head(roots)
           expandedKeys == snapshot[rootKey]
       IN purgeExpanded(
            IF nodeKey \in expandedKeys
            THEN _setExpandedKeys(s, rootKey, expandedKeys \ {nodeKey})
            ELSE s,
            nodeKey, snapshot, Tail(roots))

\* The loop of _purgeDirectory over selectedKeysByRoot.
RECURSIVE purgeSelected(_, _, _, _)
purgeSelected(s, nodeKey, snapshot, roots) ==
  IF roots = <<>> THEN s
  ELSE LET rootKey == Head(roots)
           selectedKeys == snapshot[rootKey]
       IN purgeSelected(
            IF nodeKey \in Range(selectedKeys)
            THEN _setSelectedKeys(s, rootKey, SeqDelete(selectedKeys, nodeKey),
                                  FALSE)
            ELSE s,
            nodeKey, snapshot, Tail(roots))

RECURSIVE _purgeDirectory(_, _), purgeChildren(_, _)

\* childKeys.forEach of _purgeDirectory.
purgeChildren(s, childKeys) ==
  IF childKeys = <<>> THEN s
  ELSE purgeChildren(
         IF isDirKey(Head(childKeys))
         THEN _purgeDirectory(s, Head(childKeys))
         ELSE s,
         Tail(childKeys))

_purgeDirectory(s, nodeKey) ==
  LET s1 == IF Truthy(s.childKeyMap, nodeKey)
            THEN LET t == purgeChildren(s, s.childKeyMap[nodeKey])
                 IN _set(t, "childKeyMap", Del(t.childKeyMap, nodeKey),
                         FALSE, FALSE)
            ELSE s
      s2 == _removeAllSubscriptions(s1, nodeKey)
      s3 == purgeExpanded(s2, nodeKey, s2.expandedKeysByRoot,
                          SetToSeq(DOMAIN s2.expandedKeysByRoot))
  IN purgeSelected(s3, nodeKey, s3.selectedKeysByRoot,
                   SetToSeq(DOMAIN s3.selectedKeysByRoot))

\* expandedKeys.forEach of _purgeRoot.
RECURSIVE releaseEach(_, _, _)
releaseEach(s, rootKey, nodeKeys) ==
  IF nodeKeys = <<>> THEN s
  ELSE releaseEach(_removeSubscription(s, rootKey, Head(nodeKeys)),
                   rootKey, Tail(nodeKeys))

\* childKeys.forEach of _purgeRoot.
RECURSIVE forgetChildren(_, _)
forgetChildren(s, childKeys) ==
  IF childKeys = <<>> THEN s
  ELSE forgetChildren(
         IF isDirKey(Head(childKeys))
         THEN _set(s, "childKeyMap", Del(s.childKeyMap, Head(childKeys)),
                   FALSE, FALSE)
         ELSE s,
         Tail(childKeys))

_purgeRoot(s, rootKey) ==
  LET s1 == IF Has(s.expandedKeysByRoot, rootKey)
            THEN LET t == releaseEach(s, rootKey,
                                      SetToSeq(s.expandedKeysByRoot[rootKey]))
                 IN _set(t, "expandedKeysByRoot",
                         Del(t.expandedKeysByRoot, rootKey), FALSE, FALSE)
            ELSE s
      s2 == _set(s1, "selectedKeysByRoot", Del(s1.selectedKeysByRoot, rootKey),
                 FALSE, FALSE)
      s3 == IF Truthy(s2.childKeyMap, rootKey)
            THEN LET t == forgetChildren(s2, s2.childKeyMap[rootKey])
                 IN _set(t, "childKeyMap", Del(t.childKeyMap, rootKey),
                         FALSE, FALSE)
            ELSE s2
  IN _set(s3, "vcsStatusesByRoot", Del(s3.vcsStatusesByRoot, rootKey),
          FALSE, FALSE)

\* oldRootKeys.forEach of _setRootKeys.
RECURSIVE purgeRemoved(_, _, _)
purgeRemoved(s, oldRootKeys, newRootKeys) ==
  IF oldRootKeys = <<>> THEN s
  ELSE purgeRemoved(
         IF Head(oldRootKeys) \notin Range(newRootKeys)
         THEN _purgeRoot(s, Head(oldRootKeys))
         ELSE s,
         Tail(oldRootKeys), newRootKeys)

\* The payload's array is a new object: fresh.
_setRootKeys(s, newRootKeys) ==
  _set(purgeRemoved(s, s.rootKeys, newRootKeys), "rootKeys", newRootKeys,
       TRUE, FALSE)

\* oldChildKeys.forEach of _setChildKeys.
RECURSIVE purgeMissing(_, _, _)
purgeMissing(s, oldChildKeys, childKeys) ==
  IF oldChildKeys = <<>> THEN s
  ELSE purgeMissing(
         IF isDirKey(Head(oldChildKeys)) /\ Head(oldChildKeys) \notin Range(childKeys)
         THEN _purgeDirectory(s, Head(oldChildKeys))
         ELSE s,
         Tail(oldChildKeys), childKeys)

\* A _setChildKeys that only stores the new list.
setChildKeysNoPurge(s, nodeKey, childKeys) ==
  _set(s, "childKeyMap", Put(s.childKeyMap, nodeKey, childKeys), TRUE, FALSE)

\* childKeys is a new array: fresh.
_setChildKeys(s, nodeKey, childKeys) ==
  LET s1 == IF Truthy(s.childKeyMap, nodeKey)
            THEN purgeMissing(s, s.childKeyMap[nodeKey], childKeys)
            ELSE s
  IN _set(s1, "childKeyMap", Put(s1.childKeyMap, nodeKey, childKeys),
          TRUE, FALSE)

\* A createChild that does not mark the directory dirty.
createChildClean(s, nodeKey, childKey) == _setChildKeys(s, nodeKey, <<childKey>>)

_createChild(s, nodeKey, childKey) ==
  LET s1 == _setChildKeys(s, nodeKey, <<childKey>>)
  IN _set(s1, "isDirtyMap", s1.isDirtyMap \cup {nodeKey}, FALSE, FALSE)

----------------------------------------------------------------------------
\* Expanding and collapsing.

RECURSIVE _collapseNode(_, _, _), collapseChildren(_, _, _, _, _)

\* childKeys.forEach of _collapseNode. selectedKeys is the local variable of
\* the caller ([has, keys]: has is FALSE for undefined), expandedChildKeys
\* its list; the result is the store and the list.
collapseChildren(s, rootKey, childKeys, selectedKeys, expandedChildKeys) ==
  IF childKeys = <<>> THEN [s |-> s, expandedChildKeys |-> expandedChildKeys]
  ELSE LET childKey == Head(childKeys)
           unselect == selectedKeys.has /\ childKey \in Range(selectedKeys.keys)
           selectedKeys1 ==
             IF unselect
             THEN [has |-> TRUE, keys |-> SeqDelete(selectedKeys.keys, childKey)]
             ELSE selectedKeys
           s1 == IF unselect
                 THEN _setSelectedKeys(s, rootKey, selectedKeys1.keys, FALSE)
                 ELSE s
           descend == isDirKey(childKey) /\ isExpanded(s1, rootKey, childKey)
       IN collapseChildren(
            IF descend THEN _collapseNode(s1, rootKey, childKey) ELSE s1,
            rootKey, Tail(childKeys), selectedKeys1,
            IF descend THEN Append(expandedChildKeys, childKey)
            ELSE expandedChildKeys)

\* The array expandedChildKeys is a new object: the inner setProperty gives a
\* new object whenever it stores it.
_collapseNode(s, rootKey, nodeKey) ==
  LET done == collapseChildren(
                s, rootKey,
                IF Truthy(s.childKeyMap, nodeKey) THEN s.childKeyMap[nodeKey]
                ELSE <<>>,
                [has |-> Has(s.selectedKeysByRoot, rootKey),
                 keys |-> Get(s.selectedKeysByRoot, rootKey, <<>>)],
                <<>>)
      s1 == done.s
      previous == Get(s1.previouslyExpanded, rootKey, EmptyMap)
      previous1 == IF done.expandedChildKeys # <<>>
                   THEN Put(previous, nodeKey, done.expandedChildKeys)
                   ELSE Del(previous, nodeKey)
      s2 == _set(s1, "previouslyExpanded",
                 Put(s1.previouslyExpanded, rootKey, previous1),
                 done.expandedChildKeys # <<>>, FALSE)
      s3 == _setExpandedKeys(s2, rootKey, _getExpandedKeys(s2, rootKey) \ {nodeKey})
  IN _removeSubscription(s3, rootKey, nodeKey)

\* An expand that does not look at previouslyExpanded.
expandNodeOnly(s, rootKey, nodeKey) ==
  _setExpandedKeys(s, rootKey, _getExpandedKeys(s, rootKey) \cup {nodeKey})

\* An expand that also subscribes to the directory.
expandNodeSubscribing(s, rootKey, nodeKey) ==
  _addSubscription(
    _setExpandedKeys(s, rootKey, _getExpandedKeys(s, rootKey) \cup {nodeKey}),
    nodeKey, "ok")

\* An expand that asks for the listing of the directory.
expandNodeFetching(s, rootKey, nodeKey) ==
  _fetchChildKeys(expandNodeOnly(s, rootKey, nodeKey), nodeKey)

RECURSIVE _expandNode(_, _, _), expandChildren(_, _, _)

\* The for-of loop of _expandNode.
expandChildren(s, rootKey, childKeys) ==
  IF childKeys = <<>> THEN s
  ELSE expandChildren(_expandNode(s, rootKey, Head(childKeys)), rootKey,
                      Tail(childKeys))

\* previous is the local variable previouslyExpanded, read before the loop;
\* deleteProperty of a present key gives a new object.
_expandNode(s, rootKey, nodeKey) ==
  LET s1 == _setExpandedKeys(s, rootKey, _getExpandedKeys(s, rootKey) \cup {nodeKey})
      previous == Get(s1.previouslyExpanded, rootKey, EmptyMap)
  IN IF Has(previous, nodeKey)
     THEN LET s2 == expandChildren(s1, rootKey, previous[nodeKey])
          IN _set(s2, "previouslyExpanded",
                  Put(s2.previouslyExpanded, rootKey, Del(previous, nodeKey)),
                  TRUE, FALSE)
     ELSE s1

----------------------------------------------------------------------------
\* The other handlers.

\* Immutable.is(new Immutable.Map(vcsStatuses), undefined) is false.
_setVcsStatuses(s, rootKey, vcsStatuses) ==
  IF Has(s.vcsStatusesByRoot, rootKey) /\ s.vcsStatusesByRoot[rootKey] = vcsStatuses
  THEN s
  ELSE _set(s, "vcsStatusesByRoot",
            Put(s.vcsStatusesByRoot, rootKey, vcsStatuses), TRUE, FALSE)

\* A _setTrackedNode that does not flush.
setTrackedNodeDebounced(s, rootKey, nodeKey) ==
  _set(s, "trackedNode", <<[rootKey |-> rootKey, nodeKey |-> nodeKey]>>,
       TRUE, FALSE)

_setTrackedNode(s, rootKey, nodeKey) ==
  _set(s, "trackedNode", <<[rootKey |-> rootKey, nodeKey |-> nodeKey]>>,
       TRUE, TRUE)

\* this.getRootKeys().forEach of _setSelectedKeysByRoot.
RECURSIVE selectEach(_, _, _)
selectEach(s, roots, selectedKeysByRoot_) ==
  IF roots = <<>> THEN s
  ELSE selectEach(
         IF Has(selectedKeysByRoot_, Head(roots))
         THEN _setSelectedKeys(s, Head(roots), selectedKeysByRoot_[Head(roots)],
                               selectedKeysByRoot_[Head(roots)] # <<>>)
         ELSE _deleteSelectedKeys(s, Head(roots)),
         Tail(roots), selectedKeysByRoot_)

_setSelectedKeysByRoot(s, selectedKeysByRoot_) ==
  selectEach(s, s.rootKeys, selectedKeysByRoot_)

getCachedChildKeys(s, rootKey, nodeKey) ==
  IF Truthy(s.childKeyMap, nodeKey) THEN s.childKeyMap[nodeKey] ELSE <<>>

\* A getChildKeys that leaves the tracked node alone.
getChildKeysKeepTracked(s, rootKey, nodeKey) ==
  IF ~Truthy(s.childKeyMap, nodeKey) \/ nodeKey \in s.isDirtyMap
  THEN _fetchChildKeys(s, nodeKey)
  ELSE s

\* A getChildKeys that trusts every cached list.
getChildKeysIfAbsent(s, rootKey, nodeKey) ==
  IF ~Truthy(s.childKeyMap, nodeKey)
  THEN _fetchChildKeys(s, nodeKey)
  ELSE _checkTrackedNode(s)

\* FileTreeStore.getChildKeys: the store it leaves (the list it returns is
\* getCachedChildKeys of the store before).
getChildKeys(s, rootKey, nodeKey) ==
  IF ~Truthy(s.childKeyMap, nodeKey) \/ nodeKey \in s.isDirtyMap
  THEN _fetchChildKeys(s, nodeKey)
  ELSE _checkTrackedNode(s)

\* What getChildKeys returns: the list read before the fetch is requested, or
\* an empty list.
getChildKeysReturned(s, rootKey, nodeKey) ==
  IF Truthy(s.childKeyMap, nodeKey) THEN s.childKeyMap[nodeKey] ELSE <<>>

\* FileTreeStore.getNode: a FileTreeNode is its root key and its node key.
getNode(rootKey, nodeKey) == [rootKey |-> rootKey, nodeKey |-> nodeKey]

\* selectedKeys.merge of getSelectedKeys() over the roots of selectedKeysByRoot.
RECURSIVE mergeSelected(_, _, _)
mergeSelected(s, roots, selectedKeys) ==
  IF roots = <<>> THEN selectedKeys
  ELSE mergeSelected(
         s, Tail(roots),
         ImmutableOrderedSet(selectedKeys \o s.selectedKeysByRoot[Head(roots)]))

\* FileTreeStore.getSelectedKeys; rootKey is NoKey when the argument is left
\* out.
getSelectedKeys(s, rootKey) ==
  IF rootKey = NoKey
  THEN mergeSelected(s, SetToSeq(DOMAIN s.selectedKeysByRoot), <<>>)
  ELSE Get(s.selectedKeysByRoot, rootKey, <<>>)

\* The for-of loop of getVisibleNodes over the children of key: the result is
\* the stack of directories to explore and the list of visible nodes.
RECURSIVE visitChildren(_, _, _, _, _, _)
visitChildren(s, rootKey, key, childKeys, toExplore, visibleNodes) ==
  IF childKeys = <<>>
  THEN [toExplore |-> toExplore, visibleNodes |-> visibleNodes]
  ELSE LET childKey == Head(childKeys)
       IN IF isDirKey(childKey)
          THEN visitChildren(
                 s, rootKey, key, Tail(childKeys),
                 IF isExpanded(s, rootKey, key) THEN Append(toExplore, childKey)
                 ELSE toExplore,
                 visibleNodes)
          ELSE visitChildren(s, rootKey, key, Tail(childKeys), toExplore,
                             Append(visibleNodes, getNode(key, childKey)))

\* The while loop of getVisibleNodes: pop takes the directory pushed last.
RECURSIVE exploreDirectories(_, _, _, _)
exploreDirectories(s, rootKey, toExplore, visibleNodes) ==
  IF toExplore = <<>> THEN visibleNodes
  ELSE LET key == toExplore[Len(toExplore)]
           rest == SubSeq(toExplore, 1, Len(toExplore) - 1)
           visible1 == Append(visibleNodes, getNode(key, key))
       IN IF ~Truthy(s.childKeyMap, key) \/ key \in s.isDirtyMap
          THEN exploreDirectories(s, rootKey, rest, visible1)
          ELSE LET done == visitChildren(s, rootKey, key, s.childKeyMap[key],
                                         rest, visible1)
               IN exploreDirectories(s, rootKey, done.toExplore,
                                     done.visibleNodes)

getVisibleNodes(s, rootKey) ==
  IF ~isRootKey(s, rootKey) THEN <<>>
  ELSE IF ~isExpanded(s, rootKey, rootKey) THEN <<getNode(rootKey, rootKey)>>
  ELSE exploreDirectories(s, rootKey, <<rootKey>>, <<>>)

\* The two forEach loops of getSelectedNodes: every node is a new object, so
\* the ordered set holds one node for every selected key of every root.
RECURSIVE selectedNodesOf(_, _)
selectedNodesOf(s, roots) ==
  IF roots = <<>> THEN <<>>
  ELSE LET selectedKeys == getSelectedKeys(s, Head(roots))
       IN [i \in 1..Len(selectedKeys) |-> getNode(Head(roots), selectedKeys[i])]
            \o selectedNodesOf(s, Tail(roots))

getSelectedNodes(s) == selectedNodesOf(s, s.rootKeys)

\* FileTreeStore.getSingleSelectedNode: <<>> is null.
getSingleSelectedNode(s) ==
  LET selectedRoots == DOMAIN s.selectedKeysByRoot
  IN IF Cardinality(selectedRoots) # 1 THEN <<>>
     ELSE LET rootKey == CHOOSE r \in selectedRoots : TRUE
              selectedKeys == getSelectedKeys(s, rootKey)
          IN IF Len(selectedKeys) = 1
             THEN <<getNode(rootKey, selectedKeys[1])>>
             ELSE <<>>

\* A then-callback without the check of the root.
fetchResolvedAnyRoot(s, nodeKey, childKeys, watch) ==
  _clearLoading(
    _addSubscription(_setChildKeys(s, nodeKey, childKeys), nodeKey, watch),
    nodeKey)

\* A then-callback that forgets the subscription.
fetchResolvedNoWatch(s, nodeKey, childKeys, watch) ==
  IF getRootForKey(s, nodeKey) = NoKey THEN s
  ELSE _clearLoading(_setChildKeys(s, nodeKey, childKeys), nodeKey)

\* A then-callback that lets the exception of onDidChange escape: what follows
\* the subscription is not run.
fetchResolvedPropagating(s, nodeKey, childKeys, watch) ==
  IF getRootForKey(s, nodeKey) = NoKey THEN s
  ELSE LET s1 == _setChildKeys(s, nodeKey, childKeys)
       IN IF watch = "throw" /\ ~Has(s1.subscriptionMap, nodeKey)
          THEN _addSubscription(s1, nodeKey, watch)
          ELSE _clearLoading(_addSubscription(s1, nodeKey, watch), nodeKey)

\* The then-callback of _fetchChildKeys.
fetchResolved(s, nodeKey, childKeys, watch) ==
  IF getRootForKey(s, nodeKey) = NoKey THEN s
  ELSE _clearLoading(
         _addSubscription(_setChildKeys(s, nodeKey, childKeys), nodeKey, watch),
         nodeKey)

\* A catch-callback that only clears the loading state.
fetchRejectedNoCollapse(s, nodeKey) == _clearLoading(s, nodeKey)

\* The catch-callback of _fetchChildKeys.
fetchRejected(s, nodeKey) ==
  LET rootKey == getRootForKey(s, nodeKey)
  IN _clearLoading(
       IF rootKey # NoKey THEN _collapseNode(s, rootKey, nodeKey) ELSE s,
       nodeKey)

\* A loop of loadData that subscribes and does not fetch.
RECURSIVE loadEachSubscribeOnly(_, _, _)
loadEachSubscribeOnly(s, nodeKeys, throwing) ==
  IF nodeKeys = <<>> THEN s
  ELSE loadEachSubscribeOnly(
         _addSubscription(s, Head(nodeKeys),
                          IF Head(nodeKeys) \in throwing THEN "throw" ELSE "ok"),
         Tail(nodeKeys), throwing)

\* Object.keys(data.childKeyMap).forEach of loadData; throwing is the set of
\* keys for which directory.onDidChange throws.
RECURSIVE loadEach(_, _, _)
loadEach(s, nodeKeys, throwing) ==
  IF nodeKeys = <<>> THEN s
  ELSE loadEach(
         _fetchChildKeys(
           _addSubscription(s, Head(nodeKeys),
                            IF Head(nodeKeys) \in throwing THEN "throw" ELSE "ok"),
           Head(nodeKeys)),
         Tail(nodeKeys), throwing)

\* The values of an object.
Values(object) == {object[key] : key \in DOMAIN object}

\* mapValues; fn is given as a function on the values of the object.
mapValues(object, fn) == [key \in DOMAIN object |-> fn[object[key]]]

\* new Immutable.Set(keys): the keys of the array.
ImmutableSet(keys) == Range(keys)

\* keySet.toArray() of an Immutable.Set and of an Immutable.OrderedSet.
setToArray(keySet) == SetToSeq(keySet)

orderedSetToArray(keySet) == keySet

\* A loadData that does not compare the version.
loadDataAnyVersion(s, data, throwing) ==
  loadEach(
    [getDefaults(s) EXCEPT
       !.childKeyMap = data.childKeyMap,
       !.expandedKeysByRoot = mapValues(data.expandedKeysByRoot,
            [value \in Values(data.expandedKeysByRoot) |-> ImmutableSet(value)]),
       !.rootKeys = data.rootKeys,
       !.selectedKeysByRoot =
         mapValues(data.selectedKeysByRoot,
            [value \in Values(data.selectedKeysByRoot) |-> ImmutableOrderedSet(value)])],
    SetToSeq(DOMAIN data.childKeyMap), throwing)

loadData(s, data, throwing) ==
  IF data.version # VERSION THEN s
  ELSE loadEach(
         [getDefaults(s) EXCEPT
            !.childKeyMap = data.childKeyMap,
            !.expandedKeysByRoot = mapValues(data.expandedKeysByRoot,
            [value \in Values(data.expandedKeysByRoot) |-> ImmutableSet(value)]),
            !.rootKeys = data.rootKeys,
            !.selectedKeysByRoot =
              mapValues(data.selectedKeysByRoot,
            [value \in Values(data.selectedKeysByRoot) |-> ImmutableOrderedSet(value)])],
         SetToSeq(DOMAIN data.childKeyMap), throwing)

\* The loop of reset over Object.keys(subscriptionMap).
RECURSIVE disposeEach(_, _, _)
disposeEach(s, subscriptions, nodeKeys) ==
  IF nodeKeys = <<>> THEN s
  ELSE disposeEach(dispose(s, subscriptions[Head(nodeKeys)], Head(nodeKeys)),
                   subscriptions, Tail(nodeKeys))

\* A reset that forgets the subscriptions without disposing them.
resetKeepHandles(s) == getDefaults(s)

reset(s) ==
  getDefaults(disposeEach(s, s.subscriptionMap, SetToSeq(DOMAIN s.subscriptionMap)))

\* An export that leaves the selection out.
exportDataNoSelection(s) ==
  LET expandedKeys == UNION {s.expandedKeysByRoot[r] : r \in DOMAIN s.expandedKeysByRoot}
  IN [version |-> VERSION,
      childKeyMap |-> [k \in expandedKeys |->
                         IF Has(s.childKeyMap, k) THEN s.childKeyMap[k]
                         ELSE Undefined],
      expandedKeysByRoot |-> mapValues(s.expandedKeysByRoot,
            [value \in Values(s.expandedKeysByRoot) |-> setToArray(value)]),
      rootKeys |-> s.rootKeys,
      selectedKeysByRoot |-> EmptyMap]

\* An export of every cached child list.
exportDataAllCached(s) ==
  [version |-> VERSION,
   childKeyMap |-> s.childKeyMap,
   expandedKeysByRoot |-> mapValues(s.expandedKeysByRoot,
            [value \in Values(s.expandedKeysByRoot) |-> setToArray(value)]),
   rootKeys |-> s.rootKeys,
   selectedKeysByRoot |-> mapValues(s.selectedKeysByRoot,
            [value \in Values(s.selectedKeysByRoot) |-> orderedSetToArray(value)])]

\* FileTreeStore.exportData. An expanded key without cached children is
\* exported with the value undefined.
exportData(s) ==
  LET expandedKeys == UNION {s.expandedKeysByRoot[r] : r \in DOMAIN s.expandedKeysByRoot}
  IN [version |-> VERSION,
      childKeyMap |-> [k \in expandedKeys |->
                         IF Has(s.childKeyMap, k) THEN s.childKeyMap[k]
                         ELSE Undefined],
      expandedKeysByRoot |-> mapValues(s.expandedKeysByRoot,
            [value \in Values(s.expandedKeysByRoot) |-> setToArray(value)]),
      rootKeys |-> s.rootKeys,
      selectedKeysByRoot |-> mapValues(s.selectedKeysByRoot,
            [value \in Values(s.selectedKeysByRoot) |-> orderedSetToArray(value)])]

----------------------------------------------------------------------------
\* What the callers of the store pass in.

\* Root lists of SET_ROOT_KEYS.
RootChoices == {<<>>, <<A>>, <<A, AD>>, <<AD, A>>}

\* Selections of SET_SELECTED_NODES_FOR_ROOT.
SelectionChoices == {<<>>, <<ADG>>, <<ADG, AF>>}

\* Payloads of SET_SELECTED_NODES_FOR_TREE.
ForestChoices == {EmptyMap, A :> <<AF>>, (A :> <<AF>>) @@ (AD :> <<>>)}

\* Payloads of SET_VCS_STATUSES.
VcsChoices == {AF :> 1}

\* Nodes of SET_TRACKED_NODE: a file is revealed in the tree.
TrackChoices == {ADG}

\* childKey names an entry of the directory nodeKey.
IsChildOf(childKey, nodeKey) ==
  /\ childKey # nodeKey
  /\ startsWith(childKey, nodeKey)
  /\ \A k \in DirKeys \ {childKey, nodeKey} :
       ~(startsWith(childKey, k) /\ startsWith(k, nodeKey))

\* Saved states handed to loadData: two exports of an earlier session and one
\* written by another version of the package.
SavedDeep ==
  [version |-> VERSION,
   childKeyMap |-> (A :> <<AD, AF>>) @@ (AD :> <<ADE, ADG>>) @@ (ADE :> <<>>),
   expandedKeysByRoot |-> (A :> <<A, AD, ADE>>),
   rootKeys |-> <<A>>,
   selectedKeysByRoot |-> (A :> <<ADG>>)]

SavedTwoRoots ==
  [version |-> VERSION,
   childKeyMap |-> (A :> <<AD, AF>>) @@ (AD :> <<ADG>>),
   expandedKeysByRoot |-> (A :> <<A, AD>>) @@ (AD :> <<AD>>),
   rootKeys |-> <<A, AD>>,
   selectedKeysByRoot |-> EmptyMap]

SavedOtherVersion == [SavedDeep EXCEPT !.version = 0]

LoadChoices == {SavedDeep, SavedTwoRoots, SavedOtherVersion}

\* What loadData can be given in a state: a saved state, or the export of the
\* store as it is.
LoadInputs == LoadChoices \cup {exportData(S)}

\* What directory.onDidChange can do for a key: it returns a handle ("ok"), and
\* for the directories of MayThrow it can throw instead.
MayThrow == {ADE}

WatchOutcomes(nodeKey) ==
  IF nodeKey \in MayThrow THEN {"ok", "throw"} ELSE {"ok"}

----------------------------------------------------------------------------
\* The entry points.

\* An external call: it uses one of the MaxSteps calls of the behaviour.
Call(s) ==
  /\ steps < MaxSteps
  /\ Cardinality(s.promises) <= MaxPending
  /\ Becomes(s)
  /\ steps' = steps + 1

\* A callback of the event loop.
Callback(s) == Becomes(s) /\ steps' = steps

SetRootKeys(newRootKeys) == Call(_setRootKeys(S, newRootKeys))

ExpandNode(rootKey, nodeKey) ==
  /\ rootKey \in Range(rootKeys)
  /\ startsWith(nodeKey, rootKey)
  /\ Call(_expandNode(S, rootKey, nodeKey))

CollapseNode(rootKey, nodeKey) ==
  /\ rootKey \in Range(rootKeys)
  /\ startsWith(nodeKey, rootKey)
  /\ Call(_collapseNode(S, rootKey, nodeKey))

SetSelectedKeys(rootKey, nodeKeys) ==
  /\ rootKey \in Range(rootKeys)
  /\ \A k \in Range(nodeKeys) : startsWith(k, rootKey)
  /\ Call(_setSelectedKeys(S, rootKey, nodeKeys, nodeKeys # <<>>))

SetSelectedKeysByRoot(selectedKeysByRoot_) ==
  /\ DOMAIN selectedKeysByRoot_ \subseteq Range(rootKeys)
  /\ Call(_setSelectedKeysByRoot(S, selectedKeysByRoot_))

CreateChild(nodeKey, childKey) ==
  /\ getRootForKey(S, nodeKey) # NoKey
  /\ IsChildOf(childKey, nodeKey)
  /\ Call(_createChild(S, nodeKey, childKey))

SetVcsStatuses(rootKey, vcsStatuses) ==
  /\ rootKey \in Range(rootKeys)
  /\ Call(_setVcsStatuses(S, rootKey, vcsStatuses))

SetTrackedNode(rootKey, nodeKey) ==
  /\ rootKey \in Range(rootKeys)
  /\ startsWith(nodeKey, rootKey)
  /\ Call(_setTrackedNode(S, rootKey, nodeKey))

\* _deleteSelectedNodes asks the file system to delete the selected files and
\* leaves the store alone; the deletions come back as watch callbacks.
DeleteSelectedNodes ==
  /\ \E r \in DOMAIN selectedKeysByRoot : selectedKeysByRoot[r] # <<>>
  /\ Call(S)

GetChildKeys(rootKey, nodeKey) ==
  /\ rootKey \in Range(rootKeys)
  /\ startsWith(nodeKey, rootKey)
  /\ Call(getChildKeys(S, rootKey, nodeKey))

\* The queries without a write: the store is left as it is, and what they
\* return is the operator of the same name.
GetCachedChildKeys(rootKey, nodeKey) ==
  /\ rootKey \in Range(rootKeys)
  /\ startsWith(nodeKey, rootKey)
  /\ Call(S)

GetVisibleNodes(rootKey) == Call(S)

GetSelectedKeys(rootKey) == Call(S)

GetSelectedNodes == Call(S)

GetSingleSelectedNode == Call(S)

IsLoading(rootKey, nodeKey) ==
  /\ rootKey \in Range(rootKeys)
  /\ startsWith(nodeKey, rootKey)
  /\ Call(S)

IsExpanded(rootKey, nodeKey) ==
  /\ rootKey \in Range(rootKeys)
  /\ startsWith(nodeKey, rootKey)
  /\ Call(S)

LoadData(data, throwing) == Call(loadData(S, data, throwing))

Reset == Call(reset(S))

\* The callback given to directory.onDidChange, for a handle not disposed.
DirectoryChange(handle) ==
  /\ handle \in live
  /\ Call(_onDirectoryChange(S, handle.key))

\* The listing of promise.key resolves with childKeys.
FetchResolved(promise, childKeys, watch) ==
  /\ promise \in promises
  /\ Callback(fetchResolved([S EXCEPT !.promises = @ \ {promise}],
                            promise.key, childKeys, watch))

\* The listing of promise.key rejects.
FetchRejected(promise) ==
  /\ promise \in promises
  /\ Callback(fetchRejected([S EXCEPT !.promises = @ \ {promise}], promise.key))

\* The setImmediate callback of _set.
TimerFired ==
  /\ timer > 0
  /\ Callback([S EXCEPT !.timer = @ - 1, !.emits = 1])

\* LocalClangService.constructor
ClangConstructed ==
  /\ _asyncConnection = 0
  /\ connections = <<>>
  /\ requests = <<>>
  /\ _writableStream = 0
  /\ _nextRequestId = 1

Init ==
  /\ childKeyMap = EmptyMap
  /\ isDirtyMap = {}
  /\ expandedKeysByRoot = EmptyMap
  /\ trackedNode = <<>>
  /\ previouslyExpanded = EmptyMap
  /\ isLoadingMap = EmptyMap
  /\ rootKeys = <<>>
  /\ selectedKeysByRoot = EmptyMap
  /\ subscriptionMap = EmptyMap
  /\ vcsStatusesByRoot = EmptyMap
  /\ timer = 0
  /\ emits = 0
  /\ promises = {}
  /\ live = {}
  /\ redisposed = {}
  /\ steps = 0
  /\ ClangConstructed

Next ==
  \/ \E newRootKeys \in RootChoices : SetRootKeys(newRootKeys)
  \/ \E rootKey \in DirKeys, nodeKey \in DirKeys : ExpandNode(rootKey, nodeKey)
  \/ \E rootKey \in DirKeys, nodeKey \in DirKeys : CollapseNode(rootKey, nodeKey)
  \/ \E rootKey \in DirKeys, nodeKeys \in SelectionChoices :
       SetSelectedKeys(rootKey, nodeKeys)
  \/ \E selectedKeysByRoot_ \in ForestChoices :
       SetSelectedKeysByRoot(selectedKeysByRoot_)
  \/ \E nodeKey \in DirKeys, childKey \in Keys : CreateChild(nodeKey, childKey)
  \/ \E rootKey \in DirKeys, vcsStatuses \in VcsChoices :
       SetVcsStatuses(rootKey, vcsStatuses)
  \/ \E rootKey \in DirKeys, nodeKey \in TrackChoices :
       SetTrackedNode(rootKey, nodeKey)
  \/ DeleteSelectedNodes
  \/ \E rootKey \in DirKeys, nodeKey \in DirKeys : GetChildKeys(rootKey, nodeKey)
  \/ \E rootKey \in DirKeys, nodeKey \in DirKeys :
       GetCachedChildKeys(rootKey, nodeKey)
  \/ \E rootKey \in DirKeys : GetVisibleNodes(rootKey)
  \/ \E rootKey \in DirKeys \cup {NoKey} : GetSelectedKeys(rootKey)
  \/ GetSelectedNodes
  \/ GetSingleSelectedNode
  \/ \E rootKey \in DirKeys, nodeKey \in DirKeys : IsLoading(rootKey, nodeKey)
  \/ \E rootKey \in DirKeys, nodeKey \in DirKeys : IsExpanded(rootKey, nodeKey)
  \/ \E data \in LoadInputs, throwing \in SUBSET MayThrow :
       LoadData(data, throwing)
  \/ Reset
  \/ \E handle \in live : DirectoryChange(handle)
  \/ \E promise \in promises :
       \E childKeys \in Listings(promise.key), watch \in WatchOutcomes(promise.key) :
         FetchResolved(promise, childKeys, watch)
  \/ \E promise \in promises : FetchRejected(promise)
  \/ TimerFired

Spec == Init /\ [][Next]_vars

\* The record of a store just constructed.
Constructed ==
  [childKeyMap |-> EmptyMap, isDirtyMap |-> {}, expandedKeysByRoot |-> EmptyMap,
   trackedNode |-> <<>>, previouslyExpanded |-> EmptyMap,
   isLoadingMap |-> EmptyMap, rootKeys |-> <<>>, selectedKeysByRoot |-> EmptyMap,
   subscriptionMap |-> EmptyMap, vcsStatusesByRoot |-> EmptyMap,
   timer |-> 0, emits |-> 0, promises |-> {}, live |-> {}, redisposed |-> {}]

\* Record s is the store.
Holds(s) ==
  /\ childKeyMap = s.childKeyMap
  /\ isDirtyMap = s.isDirtyMap
  /\ expandedKeysByRoot = s.expandedKeysByRoot
  /\ trackedNode = s.trackedNode
  /\ previouslyExpanded = s.previouslyExpanded
  /\ isLoadingMap = s.isLoadingMap
  /\ rootKeys = s.rootKeys
  /\ selectedKeysByRoot = s.selectedKeysByRoot
  /\ subscriptionMap = s.subscriptionMap
  /\ vcsStatusesByRoot = s.vcsStatusesByRoot
  /\ timer = s.timer
  /\ emits = s.emits
  /\ promises = s.promises
  /\ live = s.live
  /\ redisposed = s.redisposed

\* The saved states a session can start from.
RestoreChoices == {SavedTwoRoots, SavedOtherVersion}

\* A session that starts from a saved state: the store is constructed and
\* given the state with loadData before any other call (a state of another
\* version leaves it as constructed).
Restored ==
  /\ \E data \in RestoreChoices : Holds(loadData(Constructed, data, {}))
  /\ steps = 0
  /\ ClangConstructed

\* A listing settles: its promise resolves or rejects.
Settle ==
  \E promise \in promises :
    \/ \E childKeys \in Listings(promise.key), watch \in WatchOutcomes(promise.key) :
         FetchResolved(promise, childKeys, watch)
    \/ FetchRejected(promise)

\* The event loop runs the callbacks that are due: a scheduled setImmediate
\* callback is run, and every listing asked of the file system settles. Settle
\* is enabled exactly when a listing is in flight and every Settle step takes
\* one out of promises, so weak fairness of Settle is written with its
\* enabling condition: always eventually no listing is in flight, or always
\* eventually a Settle step is taken.
LiveSpec ==
  /\ Restored
  /\ [][Next]_vars
  /\ WF_vars(TimerFired)
  /\ ([]<>(promises = {}) \/ []<><<Settle>>_vars)

\* The store from its construction, with the event loop running the
\* setImmediate callbacks that are due.
TickSpec == Init /\ [][Next]_vars /\ WF_vars(TimerFired)

----------------------------------------------------------------------------
\* LocalClangService: the connection to the clang server process. The
\* service keeps the promise of the connection in _asyncConnection; a
\* connection is [state, child, nulled]: the state of its promise, the state
\* of the process spawned for it, and whether the property _asyncConnection
\* of the process object has been set to null.

\* _makeRequest calls made in one behaviour.
MaxRequests == 4

\* LocalClangService._connect, up to the return of the promise; c is the
\* service as [_asyncConnection, connections]. The executor of a new promise
\* runs to its first await (_findClangServerArgs): nothing is spawned yet.
_connect(c) ==
  IF c._asyncConnection # 0 THEN c
  ELSE [_asyncConnection |-> Len(c.connections) + 1,
        connections |-> Append(c.connections,
                               [state |-> "finding", child |-> "none",
                                nulled |-> FALSE])]

\* LocalClangService._makeRequest, up to its await of _connect().
MakeRequest ==
  /\ Len(requests) < MaxRequests
  /\ LET c == _connect([_asyncConnection |-> _asyncConnection,
                        connections |-> connections])
     IN /\ _asyncConnection' = c._asyncConnection
        /\ connections' = c.connections
        /\ requests' = Append(requests,
                              [pc |-> "connecting",
                               connection |-> c._asyncConnection, stream |-> 0])
  /\ UNCHANGED <<_writableStream, _nextRequestId, storeVars>>

\* The executor goes on after its awaits: safeSpawn has given the child, the
\* listeners are registered and 'init' is written to the child.
Spawned(id) ==
  /\ connections[id].state = "finding"
  /\ connections' = [connections EXCEPT ![id].state = "starting",
                                        ![id].child = "alive"]
  /\ UNCHANGED <<_asyncConnection, requests, _writableStream, _nextRequestId,
                 storeVars>>

\* The child answers 'ack': the promise resolves and its then-callback stores
\* the streams.
Acked(id) ==
  /\ connections[id].state = "starting"
  /\ connections[id].child = "alive"
  /\ connections' = [connections EXCEPT ![id].state = "resolved"]
  /\ _writableStream' = id
  /\ UNCHANGED <<_asyncConnection, requests, _nextRequestId, storeVars>>

\* The child answers something else: the promise rejects.
Refused(id) ==
  /\ connections[id].state = "starting"
  /\ connections[id].child = "alive"
  /\ connections' = [connections EXCEPT ![id].state = "rejected"]
  /\ UNCHANGED <<_asyncConnection, requests, _writableStream, _nextRequestId,
                 storeVars>>

\* The listener of 'close'. It is a function expression, not an arrow
\* function: the emitter calls it with the child process as `this`, so the
\* assignment this._asyncConnection = null writes a property of the child.
ChildClosed(id) ==
  /\ connections[id].child = "alive"
  /\ connections' = [connections EXCEPT ![id].child = "closed",
                                        ![id].nulled = TRUE]
  /\ UNCHANGED <<_asyncConnection, requests, _writableStream, _nextRequestId,
                 storeVars>>

\* _makeRequest goes on after await this._connect(): it takes a request id and
\* writes the request to _writableStream.
Written(r) ==
  /\ requests[r].pc = "connecting"
  /\ connections[requests[r].connection].state = "resolved"
  /\ requests' = [requests EXCEPT ![r].pc = "written",
                                  ![r].stream = _writableStream]
  /\ _nextRequestId' = _nextRequestId + 1
  /\ UNCHANGED <<_asyncConnection, connections, _writableStream, storeVars>>

\* The awaited connection has rejected: _makeRequest rejects.
Failed(r) ==
  /\ requests[r].pc = "connecting"
  /\ connections[requests[r].connection].state = "rejected"
  /\ requests' = [requests EXCEPT ![r].pc = "failed"]
  /\ UNCHANGED <<_asyncConnection, connections, _writableStream,
                 _nextRequestId, storeVars>>

\* The server answers a request written to it.
Answered(r) ==
  /\ requests[r].pc = "written"
  /\ connections[requests[r].stream].child = "alive"
  /\ requests' = [requests EXCEPT ![r].pc = "answered"]
  /\ UNCHANGED <<_asyncConnection, connections, _writableStream,
                 _nextRequestId, storeVars>>

ClangNext ==
  \/ MakeRequest
  \/ \E id \in DOMAIN connections : Spawned(id)
  \/ \E id \in DOMAIN connections : Acked(id)
  \/ \E id \in DOMAIN connections : Refused(id)
  \/ \E id \in DOMAIN connections : ChildClosed(id)
  \/ \E r \in DOMAIN requests : Written(r)
  \/ \E r \in DOMAIN requests : Failed(r)
  \/ \E r \in DOMAIN requests : Answered(r)

ClangSpec == Init /\ [][ClangNext]_vars

----------------------------------------------------------------------------
\* Properties of the fetches.

\* The handle stored for nodeKey.
Handle(nodeKey) == [id |-> subscriptionMap[nodeKey], key |-> nodeKey]

\* The listings in flight for nodeKey.
Pending(nodeKey) == {p \in promises : p.key = nodeKey}

\* C1: a getChildKeys call for a key whose children are not cached or are
\* dirty starts no listing and leaves isLoadingMap alone when the key has a
\* pending entry, and otherwise starts exactly one listing of that key and
\* stores it in isLoadingMap; so any number of calls made before the first
\* listing settles invoke the listing collaborator once.
C1_GetChildKeysFetchesOnce ==
  [][\A rootKey \in DirKeys, nodeKey \in DirKeys :
       (/\ GetChildKeys(rootKey, nodeKey)
        /\ (~Truthy(childKeyMap, nodeKey) \/ nodeKey \in isDirtyMap))
       => IF Has(isLoadingMap, nodeKey)
          THEN promises' = promises /\ isLoadingMap' = isLoadingMap
          ELSE \E p \in promises' :
                 /\ p \notin promises
                 /\ p.key = nodeKey
                 /\ promises' = promises \cup {p}
                 /\ isLoadingMap' = Put(isLoadingMap, nodeKey, p.id)]_vars

\* A getChildKeys call has started the only listing there is: nothing is
\* cached, nothing is watched, one key is loading.
C1_Witness ==
  /\ rootKeys # <<>>
  /\ DOMAIN childKeyMap = {}
  /\ live = {}
  /\ \E nodeKey \in DirKeys :
       /\ DOMAIN isLoadingMap = {nodeKey}
       /\ Cardinality(Pending(nodeKey)) = 1
       /\ Cardinality(promises) = 1

\* C2: at most one listing per key is in flight, in every reachable state.
C2_OneListingPerKey ==
  \A nodeKey \in Keys : Cardinality(Pending(nodeKey)) <= 1

\* C3: when the listing of a key under a registered root resolves with
\* childKeys, the step leaves childKeyMap[key] = childKeys, the key not dirty
\* and not loading, and, when onDidChange returned a handle, that handle live
\* in subscriptionMap.
C3_ResolvedFetchInstalls ==
  [][\A promise \in promises :
       \A childKeys \in Listings(promise.key), watch \in WatchOutcomes(promise.key) :
         (/\ FetchResolved(promise, childKeys, watch)
          /\ getRootForKey(S, promise.key) # NoKey)
         => /\ Has(childKeyMap', promise.key)
            /\ childKeyMap'[promise.key] = childKeys
            /\ promise.key \notin isDirtyMap'
            /\ ~Has(isLoadingMap', promise.key)
            /\ watch = "ok" =>
                 /\ Has(subscriptionMap', promise.key)
                 /\ [id |-> subscriptionMap'[promise.key], key |-> promise.key]
                      \in live']_vars

\* The listing <<AF>> of A has been installed by a resolved fetch (a saved
\* state holds another list for A, and createChild leaves A dirty).
C3_Witness ==
  /\ getRootForKey(S, A) # NoKey
  /\ Has(childKeyMap, A) /\ childKeyMap[A] = <<AF>>
  /\ A \notin isDirtyMap
  /\ ~Has(isLoadingMap, A)
  /\ Has(subscriptionMap, A)

\* C4: when the listing of a key rejects, the step leaves the key collapsed
\* under the first registered root that is a prefix of it, not loading, and
\* childKeyMap as it was.
C4_RejectedFetchCollapses ==
  [][\A promise \in promises :
       FetchRejected(promise)
       => /\ getRootForKey(S, promise.key) # NoKey
               => promise.key \notin
                    Get(expandedKeysByRoot', getRootForKey(S, promise.key), {})
          /\ ~Has(isLoadingMap', promise.key)
          /\ childKeyMap' = childKeyMap]_vars

\* After loadData alone, the listing of the expanded root A has rejected: A is
\* collapsed with its expanded child saved, and is no longer loading.
C4_Witness ==
  /\ steps = 1
  /\ rootKeys = <<A>>
  /\ Has(expandedKeysByRoot, A) /\ A \notin expandedKeysByRoot[A]
  /\ Has(previouslyExpanded, A) /\ Has(previouslyExpanded[A], A)
  /\ ~Has(isLoadingMap, A)
  /\ Truthy(childKeyMap, A)

\* C5: when the listing of a key resolves while no registered root is a prefix
\* of the key, the step changes no field of the store, acquires no handle and
\* neither emits nor schedules a notification.
C5_ResolvedWithoutRootIsNoOp ==
  [][\A promise \in promises :
       \A childKeys \in Listings(promise.key), watch \in WatchOutcomes(promise.key) :
         (/\ FetchResolved(promise, childKeys, watch)
          /\ getRootForKey(S, promise.key) = NoKey)
         => /\ UNCHANGED dataVars
            /\ live' = live
            /\ timer' = timer
            /\ emits' = 0]_vars

\* A listing has settled while there was no root: its key is still in
\* isLoadingMap and no listing of it is in flight.
C5_Witness ==
  /\ rootKeys = <<>>
  /\ \E nodeKey \in DOMAIN isLoadingMap : Pending(nodeKey) = {}

----------------------------------------------------------------------------
\* Properties of the purges.

\* The keys of the cached subtree of nodeKey: nodeKey and, through the child
\* lists of childKeyMap, the keys below it.
RECURSIVE Subtree(_, _)
Subtree(map, nodeKey) ==
  {nodeKey} \cup
    (IF Truthy(map, nodeKey)
     THEN UNION {Subtree(map, map[nodeKey][i]) : i \in 1..Len(map[nodeKey])}
     ELSE {})

\* The directories that _setChildKeys purges when it replaces the child list
\* of nodeKey by childKeys.
Purged(nodeKey, childKeys) ==
  IF Truthy(childKeyMap, nodeKey)
  THEN {c \in Range(childKeyMap[nodeKey]) : isDirKey(c) /\ c \notin Range(childKeys)}
  ELSE {}

\* Nothing of the store refers to nodeKey after the step.
Forgotten(nodeKey) ==
  /\ ~Truthy(childKeyMap', nodeKey)
  /\ ~Has(subscriptionMap', nodeKey)
  /\ Has(subscriptionMap, nodeKey) => Handle(nodeKey) \notin live'
  /\ \A r \in DOMAIN expandedKeysByRoot' : nodeKey \notin expandedKeysByRoot'[r]
  /\ \A r \in DOMAIN selectedKeysByRoot' : nodeKey \notin Range(selectedKeysByRoot'[r])

\* The steps that call _purgeDirectory, with what they purge: a resolved
\* listing and createChild, through _setChildKeys.
PurgeStep(purged) ==
  \/ \E promise \in promises :
       \E childKeys \in Listings(promise.key), watch \in WatchOutcomes(promise.key) :
         /\ FetchResolved(promise, childKeys, watch)
         /\ getRootForKey(S, promise.key) # NoKey
         /\ purged = Purged(promise.key, childKeys)
  \/ \E nodeKey \in DirKeys, childKey \in Keys :
       /\ CreateChild(nodeKey, childKey)
       /\ purged = Purged(nodeKey, <<childKey>>)

\* C6 as stated: after purgeDirectory(k) nothing refers to k or to any key of
\* its former subtree, container or leaf.
C6_PurgeForgetsSubtree ==
  [][\A purged \in SUBSET DirKeys :
       PurgeStep(purged)
       => \A k \in purged : \A d \in Subtree(childKeyMap, k) : Forgotten(d)]_vars

\* The roots that SET_ROOT_KEYS removes.
Removed(newRootKeys) == Range(rootKeys) \ Range(newRootKeys)

\* rootKey and the keys below it lie under no root of newRootKeys.
Apart(rootKey, newRootKeys) ==
  \A i \in 1..Len(newRootKeys) :
    ~startsWith(newRootKeys[i], rootKey) /\ ~startsWith(rootKey, newRootKeys[i])

\* C7 as stated: after SetRoots, no entry of childKeyMap, subscriptionMap,
\* expandedKeysByRoot, selectedKeysByRoot or vcsStatusesByRoot is left for a
\* removed root or for a key below it, at any depth.
C7_RemovedRootLeavesNothing ==
  [][\A newRootKeys \in RootChoices :
       SetRootKeys(newRootKeys)
       => \A r \in Removed(newRootKeys) :
            Apart(r, newRootKeys)
            => \A k \in Keys :
                 startsWith(k, r)
                 => /\ ~Has(childKeyMap', k)
                    /\ ~Has(subscriptionMap', k)
                    /\ ~Has(expandedKeysByRoot', k)
                    /\ ~Has(selectedKeysByRoot', k)
                    /\ ~Has(vcsStatusesByRoot', k)]_vars

----------------------------------------------------------------------------
\* Properties of the subscriptions.

\* nodeKey is expanded under a registered root.
ExpandedSomewhere(s, nodeKey) ==
  \E i \in 1..Len(s.rootKeys) : isExpanded(s, s.rootKeys[i], nodeKey)

\* C8 as stated: a directory that can be watched has a subscription exactly
\* when it is expanded under a registered root.
C8_SubscribedIffExpanded ==
  \A nodeKey \in DirKeys \ MayThrow :
    Has(subscriptionMap, nodeKey) <=> ExpandedSomewhere(S, nodeKey)

\* C8 amended: a key gets its subscription when a listing of it resolves or
\* from loadData, never from being expanded, and loses it, loadData apart,
\* only in a step after which no registered root has it expanded.
C8_SubscriptionFollowsFetch ==
  [][\A nodeKey \in DirKeys :
       /\ (~Has(subscriptionMap, nodeKey) /\ Has(subscriptionMap', nodeKey))
          => \/ \E promise \in Pending(nodeKey) :
                  \E childKeys \in Listings(nodeKey), watch \in WatchOutcomes(nodeKey) :
                    FetchResolved(promise, childKeys, watch)
             \/ \E data \in LoadInputs, throwing \in SUBSET MayThrow :
                  LoadData(data, throwing) /\ Has(data.childKeyMap, nodeKey)
       /\ (Has(subscriptionMap, nodeKey) /\ ~Has(subscriptionMap', nodeKey))
          => \/ \E data \in LoadInputs, throwing \in SUBSET MayThrow :
                  LoadData(data, throwing)
             \/ ~ExpandedSomewhere(S', nodeKey)]_vars

\* The never expanded root A is watched since its listing resolved.
C8_Witness ==
  /\ rootKeys = <<A>>
  /\ ~isExpanded(S, A, A)
  /\ DOMAIN previouslyExpanded = {}
  /\ Truthy(childKeyMap, A)
  /\ Has(subscriptionMap, A) /\ Handle(A) \in live

\* C9: when a subscribed key is released for a root, by Collapse or by the
\* purge of the root in SetRoots, the handle stays live in subscriptionMap and
\* the dirty mark of the key is untouched if another registered root has the
\* key expanded (in SetRoots: a root that stays); otherwise the handle is
\* disposed, the entry removed and the key marked dirty.
C9_ReleaseCountsRoots ==
  [][/\ \A rootKey \in DirKeys, nodeKey \in DirKeys :
          (CollapseNode(rootKey, nodeKey) /\ Has(subscriptionMap, nodeKey))
          => IF \E o \in Range(rootKeys) : o # rootKey /\ isExpanded(S, o, nodeKey)
             THEN /\ Has(subscriptionMap', nodeKey)
                  /\ subscriptionMap'[nodeKey] = subscriptionMap[nodeKey]
                  /\ Handle(nodeKey) \in live'
                  /\ (nodeKey \in isDirtyMap' <=> nodeKey \in isDirtyMap)
             ELSE /\ ~Has(subscriptionMap', nodeKey)
                  /\ Handle(nodeKey) \notin live'
                  /\ nodeKey \in isDirtyMap'
     /\ \A newRootKeys \in RootChoices :
          SetRootKeys(newRootKeys)
          => \A r \in Removed(newRootKeys) :
               \A nodeKey \in _getExpandedKeys(S, r) :
                 Has(subscriptionMap, nodeKey)
                 => IF \E o \in Range(rootKeys) \cap Range(newRootKeys) :
                         isExpanded(S, o, nodeKey)
                    THEN /\ Has(subscriptionMap', nodeKey)
                         /\ subscriptionMap'[nodeKey] = subscriptionMap[nodeKey]
                         /\ Handle(nodeKey) \in live'
                         /\ (nodeKey \in isDirtyMap' <=> nodeKey \in isDirtyMap)
                    ELSE /\ ~Has(subscriptionMap', nodeKey)
                         /\ Handle(nodeKey) \notin live'
                         /\ nodeKey \in isDirtyMap']_vars

\* AD, expanded under the roots A and AD, has been collapsed under A by a
\* dispatch (its listing is still in flight): its subscription is kept.
C9_Witness ==
  /\ steps = 2
  /\ rootKeys = <<A, AD>>
  /\ Has(previouslyExpanded, A)
  /\ ~isExpanded(S, A, AD)
  /\ isExpanded(S, AD, AD)
  /\ Has(isLoadingMap, AD) /\ Pending(AD) # {}
  /\ Has(subscriptionMap, AD) /\ Handle(AD) \in live
  /\ AD \notin isDirtyMap

\* C10: every handle acquired and not disposed is the one stored in
\* subscriptionMap under its key.
C10_LiveHandlesAreStored ==
  \A h \in live : Has(subscriptionMap, h.key) /\ subscriptionMap[h.key] = h.id

\* C11: no handle is disposed a second time, in every reachable state.
C11_DisposedOnce == redisposed = {}

\* A root loaded three levels deep has been collapsed: the three handles have
\* been released one after another and none is left.
C11_Witness ==
  /\ isDirtyMap = {A, AD, ADE}
  /\ subscriptionMap = EmptyMap
  /\ live = {}
  /\ redisposed = {}

----------------------------------------------------------------------------
\* Properties of expansion.

\* The store after COLLAPSE_NODE(rootKey, nodeKey) and then
\* EXPAND_NODE(rootKey, nodeKey).
CollapsedThenExpanded(rootKey, nodeKey) ==
  _expandNode(_collapseNode(S, rootKey, nodeKey), rootKey, nodeKey)

\* C12: in every reachable state, for a registered root and a key expanded
\* under it, Collapse followed at once by Expand of the key gives back the
\* expanded set of the root, nested expanded descendants included.
C12_CollapseExpandRestores ==
  \A rootKey \in Range(rootKeys), nodeKey \in DirKeys :
    isExpanded(S, rootKey, nodeKey)
    => _getExpandedKeys(CollapsedThenExpanded(rootKey, nodeKey), rootKey)
         = expandedKeysByRoot[rootKey]

\* The root A is expanded with AD and ADE below it, Collapse of A collapses
\* all three and Expand brings all three back.
C12_Witness ==
  /\ A \in Range(rootKeys)
  /\ Has(expandedKeysByRoot, A) /\ expandedKeysByRoot[A] = {A, AD, ADE}
  /\ _getExpandedKeys(_collapseNode(S, A, A), A) = {}
  /\ _getExpandedKeys(CollapsedThenExpanded(A, A), A) = {A, AD, ADE}

\* The keys whose saved entry an Expand of nodeKey uses: nodeKey when it has
\* an entry in saved, and the keys of that entry in turn.
RECURSIVE Consumed(_, _)
Consumed(saved, nodeKey) ==
  IF Has(saved, nodeKey)
  THEN {nodeKey} \cup
         UNION {Consumed(saved, saved[nodeKey][i]) : i \in 1..Len(saved[nodeKey])}
  ELSE {}

\* C13: after an Expand that re-expanded nodes from previouslyExpanded[root],
\* previouslyExpanded[root] has no entry for the key nor for any descendant
\* re-expanded from its own saved entry in that Expand.
C13_ConsumedEntriesCleared ==
  [][\A rootKey \in DirKeys, nodeKey \in DirKeys :
       (ExpandNode(rootKey, nodeKey) /\ Has(previouslyExpanded, rootKey))
       => \A d \in Consumed(previouslyExpanded[rootKey], nodeKey) :
            ~Has(Get(previouslyExpanded', rootKey, EmptyMap), d)]_vars

----------------------------------------------------------------------------
\* Properties of exportData and loadData.

\* C14: loadData of what exportData returns leaves rootKeys (in order), the
\* expanded set of every root and the ordered selection of every root as
\* they were.
C14_ExportLoadRoundTrip ==
  [][\A throwing \in SUBSET MayThrow :
       LoadData(exportData(S), throwing)
       => /\ rootKeys' = rootKeys
          /\ expandedKeysByRoot' = expandedKeysByRoot
          /\ selectedKeysByRoot' = selectedKeysByRoot]_vars

\* The store, with the root A expanded, listed as <<AF>> and ADG selected,
\* has loaded its own export: A is being listed again and the handle of the
\* first load is still live beside the new one.
C14_Witness ==
  /\ steps = 2
  /\ rootKeys = <<A>>
  /\ childKeyMap = (A :> <<AF>>)
  /\ expandedKeysByRoot = (A :> {A})
  /\ selectedKeysByRoot = (A :> <<ADG>>)
  /\ Has(isLoadingMap, A)
  /\ Cardinality({h \in live : h.key = A}) = 2

\* C15: loadData of data of another version changes no field of the store,
\* starts no listing, acquires and disposes no handle, and neither emits nor
\* schedules a notification.
C15_OtherVersionIgnored ==
  [][\A data \in LoadInputs, throwing \in SUBSET MayThrow :
       (LoadData(data, throwing) /\ data.version # VERSION)
       => /\ UNCHANGED dataVars
          /\ promises' = promises
          /\ live' = live
          /\ redisposed' = redisposed
          /\ timer' = timer
          /\ emits' = 0]_vars

\* A store with roots, listings in flight and live handles, which loadData of
\* the other version leaves as it is.
C15_Witness ==
  /\ rootKeys # <<>>
  /\ promises # {}
  /\ live # {}
  /\ steps = 2
  /\ loadData(S, SavedOtherVersion, {}) = S

\* C16: after loadData of data of this version, every key of data.childKeyMap
\* is loading a listing started by the call and, unless onDidChange threw, has
\* a handle acquired by the call; isDirtyMap, previouslyExpanded,
\* vcsStatusesByRoot and trackedNode are at their defaults.
C16_LoadRestartsEverything ==
  [][\A data \in LoadInputs, throwing \in SUBSET MayThrow :
       (LoadData(data, throwing) /\ data.version = VERSION)
       => /\ \A k \in DOMAIN data.childKeyMap :
               /\ Has(isLoadingMap', k)
               /\ \E p \in promises' \ promises :
                    p.key = k /\ p.id = isLoadingMap'[k]
               /\ (k \notin throwing /\ getDirectoryByKey(k) # NoKey)
                    => /\ Has(subscriptionMap', k)
                       /\ [id |-> subscriptionMap'[k], key |-> k] \in live' \ live
          /\ isDirtyMap' = {}
          /\ previouslyExpanded' = EmptyMap
          /\ vcsStatusesByRoot' = EmptyMap
          /\ trackedNode' = <<>>]_vars

\* The three-level state has been loaded with onDidChange throwing for ADE:
\* three listings in flight, A and AD watched.
C16_Witness ==
  /\ steps = 1
  /\ DOMAIN isLoadingMap = {A, AD, ADE}
  /\ Cardinality(promises) = 3
  /\ DOMAIN subscriptionMap = {A, AD}
  /\ isDirtyMap = {}

\* C17: the keys of the childKeyMap that exportData returns are the keys
\* expanded under the registered roots, no other cached key, and each exported
\* key that has a cached child list carries it.
C17_ExportsExpandedKeys ==
  /\ DOMAIN exportData(S).childKeyMap
       = UNION {_getExpandedKeys(S, rootKeys[i]) : i \in 1..Len(rootKeys)}
  /\ \A k \in DOMAIN exportData(S).childKeyMap :
       Has(childKeyMap, k) => exportData(S).childKeyMap[k] = childKeyMap[k]

\* ADE is cached and collapsed while A and AD are expanded: the export holds
\* A and AD only.
C17_Witness ==
  /\ rootKeys = <<A>>
  /\ Has(childKeyMap, ADE)
  /\ Has(expandedKeysByRoot, A) /\ expandedKeysByRoot[A] = {A, AD}
  /\ DOMAIN exportData(S).childKeyMap = {A, AD}

----------------------------------------------------------------------------
\* Properties of the notifications.

\* A step of SET_TRACKED_NODE, the only flushing handler.
Flushing ==
  \E rootKey \in DirKeys, nodeKey \in TrackChoices : SetTrackedNode(rootKey, nodeKey)

\* A step of loadData or reset, which assign _data without _set.
Replacing ==
  \/ Reset
  \/ \E data \in LoadInputs, throwing \in SUBSET MayThrow : LoadData(data, throwing)

\* C18: at most one debounced notification is pending at any time; a handler
\* that changes the store by non-flushing writes emits nothing itself and
\* leaves one notification pending, however many writes it made; and the
\* pending notification, when its turn comes, emits 'change' once and leaves
\* none pending.
C18_OneNotificationPerTick ==
  [][/\ timer' <= 1
     /\ TimerFired => emits' = 1 /\ timer' = 0 /\ UNCHANGED dataVars
     /\ (~TimerFired /\ ~Flushing)
        => /\ emits' = 0
           /\ (dataVars' # dataVars /\ ~Replacing) => timer' = 1]_vars

\* After loadData, whose loop writes the store several times, the one pending
\* notification has been delivered.
C18_Witness ==
  /\ steps = 1
  /\ rootKeys # <<>>
  /\ Cardinality(DOMAIN isLoadingMap) >= 2
  /\ trackedNode = <<>>
  /\ emits = 1
  /\ timer = 0

C20_EqualValueIsNoOp ==
  [][/\ \A rootKey \in DirKeys, vcsStatuses \in VcsChoices :
          (/\ SetVcsStatuses(rootKey, vcsStatuses)
           /\ Has(vcsStatusesByRoot, rootKey)
           /\ vcsStatusesByRoot[rootKey] = vcsStatuses)
          => UNCHANGED dataVars /\ timer' = timer /\ emits' = 0
     /\ \A rootKey \in DirKeys, nodeKey \in DirKeys :
          (ExpandNode(rootKey, nodeKey) /\ isExpanded(S, rootKey, nodeKey))
          => UNCHANGED dataVars /\ timer' = timer /\ emits' = 0
     /\ \A newRootKeys \in RootChoices :
          (SetRootKeys(newRootKeys) /\ newRootKeys = rootKeys)
          => UNCHANGED dataVars /\ timer' = timer /\ emits' = 0]_vars

----------------------------------------------------------------------------
\* Properties of the queries and of the handlers that feed them.

\* C21 as stated: EXPAND_NODE of a key whose children are not cached leaves
\* the key loading.
C21_ExpandSchedulesFetch ==
  [][\A rootKey \in DirKeys, nodeKey \in DirKeys :
       (ExpandNode(rootKey, nodeKey) /\ ~Truthy(childKeyMap, nodeKey))
       => Has(isLoadingMap', nodeKey)]_vars

\* C21 amended: EXPAND_NODE marks the key expanded and starts no listing; the
\* listing of a key that is not cached and not loading is started by the
\* getChildKeys call that follows, and when a listing of a key under a
\* registered root resolves with childKeys, getCachedChildKeys gives childKeys
\* and isLoading is false.
C21_FetchFollowsGetChildKeys ==
  [][/\ \A rootKey \in DirKeys, nodeKey \in DirKeys :
          ExpandNode(rootKey, nodeKey)
          => /\ isExpanded(S', rootKey, nodeKey)
             /\ promises' = promises
             /\ isLoadingMap' = isLoadingMap
             /\ childKeyMap' = childKeyMap
             /\ (~Truthy(childKeyMap, nodeKey) /\ ~Has(isLoadingMap, nodeKey))
                => LET t == getChildKeys(S', rootKey, nodeKey)
                   IN /\ isLoading(t, rootKey, nodeKey)
                      /\ \E p \in t.promises \ promises : p.key = nodeKey
     /\ \A promise \in promises :
          \A childKeys \in Listings(promise.key),
             watch \in WatchOutcomes(promise.key) :
            (/\ FetchResolved(promise, childKeys, watch)
             /\ getRootForKey(S, promise.key) # NoKey)
            => LET rootKey == getRootForKey(S, promise.key)
               IN /\ getCachedChildKeys(S', rootKey, promise.key) = childKeys
                  /\ ~isLoading(S', rootKey, promise.key)]_vars

\* The root A has been expanded before anything asked for its children:
\* nothing is cached and nothing is loading.
C21_Witness ==
  /\ steps = 2
  /\ rootKeys = <<A>>
  /\ expandedKeysByRoot = (A :> {A})
  /\ childKeyMap = EmptyMap
  /\ isLoadingMap = EmptyMap
  /\ promises = {}

\* The state a failed watch leaves: the children of nodeKey are cached and
\* trusted, and nodeKey has no subscription.
Unwatched(nodeKey) ==
  /\ Truthy(childKeyMap, nodeKey)
  /\ nodeKey \notin isDirtyMap
  /\ ~Has(subscriptionMap, nodeKey)

\* The step acquires a watch handle for nodeKey.
Acquires(nodeKey) == \E handle \in live' \ live : handle.key = nodeKey

\* The step completes a listing of nodeKey.
Completes(nodeKey) ==
  \E promise \in Pending(nodeKey) :
    \E childKeys \in Listings(nodeKey), watch \in WatchOutcomes(nodeKey) :
      FetchResolved(promise, childKeys, watch)

\* The step is a loadData.
Loading ==
  \E data \in LoadInputs, throwing \in SUBSET MayThrow : LoadData(data, throwing)

\* When onDidChange throws in the completion of a listing, the list is
\* installed, the loading entry cleared, and no handle stored or acquired.
FailureContained ==
  \A promise \in promises :
    \A childKeys \in Listings(promise.key) :
      (/\ promise.key \in MayThrow
       /\ FetchResolved(promise, childKeys, "throw")
       /\ getRootForKey(S, promise.key) # NoKey
       /\ ~Has(subscriptionMap, promise.key))
      => /\ Has(childKeyMap', promise.key)
         /\ childKeyMap'[promise.key] = childKeys
         /\ ~Has(isLoadingMap', promise.key)
         /\ ~Has(subscriptionMap', promise.key)
         /\ live' \subseteq live

\* C22 as stated: the failure of the watch is contained, and the watch of an
\* unwatched key is asked for again only when a listing of the key completes.
C22_NoRetryBeforeFetch ==
  [][/\ FailureContained
     /\ \A nodeKey \in DirKeys :
          (Unwatched(nodeKey) /\ Acquires(nodeKey)) => Completes(nodeKey)]_vars

\* C22 amended: the failure of the watch is contained, and the watch of an
\* unwatched key is asked for again only when a listing of the key completes
\* or when loadData imports the key.
C22_WatchFailureIsContained ==
  [][/\ FailureContained
     /\ \A nodeKey \in DirKeys :
          (Unwatched(nodeKey) /\ Acquires(nodeKey))
          => (Completes(nodeKey) \/ Loading)]_vars

\* The listing of ADE has completed while its watch failed: its list is
\* installed, it is not loading, and it has no subscription.
C22_Witness ==
  /\ getRootForKey(S, ADE) # NoKey
  /\ Unwatched(ADE)
  /\ ~Has(isLoadingMap, ADE)
  /\ Pending(ADE) = {}
  /\ \A handle \in live : handle.key # ADE

\* C23: getChildKeys asks for a listing of the key exactly when the key has no
\* cached children or is dirty (the listing is started unless one is already
\* stored as loading), and returns the cached list, empty when there is none,
\* as getCachedChildKeys does before and after the call; getCachedChildKeys
\* starts no listing and changes nothing.
C23_GetChildKeysFetchesWhenStale ==
  [][\A rootKey \in DirKeys, nodeKey \in DirKeys :
       /\ GetChildKeys(rootKey, nodeKey)
          => /\ getChildKeysReturned(S, rootKey, nodeKey)
                  = getCachedChildKeys(S, rootKey, nodeKey)
             /\ getCachedChildKeys(S', rootKey, nodeKey)
                  = getChildKeysReturned(S, rootKey, nodeKey)
             /\ IF ~Truthy(childKeyMap, nodeKey) \/ nodeKey \in isDirtyMap
                THEN /\ Has(isLoadingMap', nodeKey)
                     /\ ~Has(isLoadingMap, nodeKey)
                        => \E p \in promises' \ promises : p.key = nodeKey
                ELSE promises' = promises /\ isLoadingMap' = isLoadingMap
       /\ GetCachedChildKeys(rootKey, nodeKey)
          => /\ UNCHANGED dataVars
             /\ promises' = promises
             /\ timer' = timer
             /\ emits' = 0]_vars

\* getChildKeys has been called for the root A when its cached list was
\* dirty: the list is still cached and dirty, and A is loading.
C23_Witness ==
  /\ steps = 2
  /\ rootKeys = <<A>>
  /\ Truthy(childKeyMap, A)
  /\ A \in isDirtyMap
  /\ Has(isLoadingMap, A)
  /\ Pending(A) # {}
  /\ ~Has(subscriptionMap, A)

\* The names of the fields of _data.
DataFields ==
  {"childKeyMap", "isDirtyMap", "expandedKeysByRoot", "trackedNode",
   "previouslyExpanded", "isLoadingMap", "rootKeys", "selectedKeysByRoot",
   "subscriptionMap", "vcsStatusesByRoot"}

\* A step of a query that has no write leaves the store as it is, emits
\* nothing, schedules nothing and starts no listing.
PureQueriesLeaveStore ==
  (\/ \E rootKey \in DirKeys, nodeKey \in DirKeys :
        \/ GetCachedChildKeys(rootKey, nodeKey)
        \/ IsLoading(rootKey, nodeKey)
        \/ IsExpanded(rootKey, nodeKey)
   \/ \E rootKey \in DirKeys : GetVisibleNodes(rootKey)
   \/ \E rootKey \in DirKeys \cup {NoKey} : GetSelectedKeys(rootKey)
   \/ GetSelectedNodes
   \/ GetSingleSelectedNode)
  => /\ UNCHANGED dataVars
     /\ promises' = promises
     /\ live' = live
     /\ timer' = timer
     /\ emits' = 0

\* getChildKeys for an absent or dirty key of store s writes isLoadingMap,
\* where it adds the key, and no other field.
FetchOnlyOnStale(s) ==
  \A rootKey \in Range(s.rootKeys), nodeKey \in DirKeys :
    (/\ startsWith(nodeKey, rootKey)
     /\ (~Truthy(s.childKeyMap, nodeKey) \/ nodeKey \in s.isDirtyMap))
    => LET t == getChildKeys(s, rootKey, nodeKey)
       IN /\ \A field \in DataFields \ {"isLoadingMap"} : t[field] = s[field]
          /\ DOMAIN t.isLoadingMap = DOMAIN s.isLoadingMap \cup {nodeKey}
          /\ \A k \in DOMAIN s.isLoadingMap : t.isLoadingMap[k] = s.isLoadingMap[k]
          /\ t.emits = s.emits

\* C24 as stated: the queries without a write leave the store alone, and so
\* does getChildKeys for a cached key that is not dirty; getChildKeys for an
\* absent or dirty key adds the loading entry and nothing else.
C24_QueriesReadOnly ==
  [][/\ PureQueriesLeaveStore
     /\ FetchOnlyOnStale(S')
     /\ \A rootKey \in Range(rootKeys'), nodeKey \in DirKeys :
          (/\ startsWith(nodeKey, rootKey)
           /\ Truthy(childKeyMap', nodeKey)
           /\ nodeKey \notin isDirtyMap')
          => getChildKeys(S', rootKey, nodeKey) = S']_vars

\* C24 amended: as stated, except that getChildKeys for a cached key that is
\* not dirty resets trackedNode to null, and schedules a notification, when a
\* node is tracked and nothing is loading.
C24_GetChildKeysResetsTrackedNode ==
  [][/\ PureQueriesLeaveStore
     /\ FetchOnlyOnStale(S')
     /\ \A rootKey \in Range(rootKeys'), nodeKey \in DirKeys :
          (/\ startsWith(nodeKey, rootKey)
           /\ Truthy(childKeyMap', nodeKey)
           /\ nodeKey \notin isDirtyMap')
          => getChildKeys(S', rootKey, nodeKey)
               = IF trackedNode' # <<>> /\ DOMAIN isLoadingMap' = {}
                 THEN [S' EXCEPT !.trackedNode = <<>>, !.timer = 1]
                 ELSE S']_vars

\* A node is tracked while nothing is loading and the children of the root A
\* are cached and not dirty: getChildKeys for A resets the tracked node.
C24_Witness ==
  /\ rootKeys = <<A>>
  /\ trackedNode # <<>>
  /\ DOMAIN isLoadingMap = {}
  /\ Truthy(childKeyMap, A)
  /\ A \notin isDirtyMap
  /\ getChildKeys(S, A, A).trackedNode = <<>>
  /\ getChildKeys(S, A, A).timer = 1

\* The node keys of a list of nodes.
NodeKeys(nodes) == {nodes[i].nodeKey : i \in 1..Len(nodes)}

\* C25 as stated: getVisibleNodes gives nothing for a key that is no root and
\* the root alone for a root that is not expanded; otherwise a child of a
\* directory is in the result only if the directory is expanded under the
\* root and its children are cached and not dirty.
C25_VisibleOnlyUnderExpanded ==
  \A rootKey \in DirKeys :
    LET visibleNodes == getVisibleNodes(S, rootKey)
    IN /\ ~isRootKey(S, rootKey) => visibleNodes = <<>>
       /\ (isRootKey(S, rootKey) /\ ~isExpanded(S, rootKey, rootKey))
          => visibleNodes = <<getNode(rootKey, rootKey)>>
       /\ \A i \in 1..Len(visibleNodes) :
            LET nodeKey == visibleNodes[i].nodeKey
            IN nodeKey # rootKey
               => \E key \in DirKeys :
                    /\ IsChildOf(nodeKey, key)
                    /\ isExpanded(S, rootKey, key)
                    /\ Truthy(childKeyMap, key)
                    /\ key \notin isDirtyMap

\* C26 as stated: getSingleSelectedNode gives a node exactly when one root has
\* a selection of exactly one key and the selection of every other root is
\* empty or absent, and then it gives the node of that key under that root.
C26_SingleSelectionIgnoresEmpty ==
  LET selecting == {r \in DOMAIN selectedKeysByRoot : selectedKeysByRoot[r] # <<>>}
      single == /\ Cardinality(selecting) = 1
                /\ \A r \in selecting : Len(selectedKeysByRoot[r]) = 1
  IN /\ getSingleSelectedNode(S) # <<>> <=> single
     /\ single
        => \A r \in selecting :
             getSingleSelectedNode(S) = <<getNode(r, selectedKeysByRoot[r][1])>>

\* The fresh snapshot: what the constructor leaves.
FreshSnapshot ==
  /\ childKeyMap = EmptyMap
  /\ isDirtyMap = {}
  /\ expandedKeysByRoot = EmptyMap
  /\ trackedNode = <<>>
  /\ previouslyExpanded = EmptyMap
  /\ isLoadingMap = EmptyMap
  /\ rootKeys = <<>>
  /\ selectedKeysByRoot = EmptyMap
  /\ subscriptionMap = EmptyMap
  /\ vcsStatusesByRoot = EmptyMap

\* C27: reset disposes every handle of subscriptionMap, each of them live
\* until then and none of them twice, and leaves the fresh snapshot; a listing
\* that settles, by resolving or by rejecting, while the snapshot is fresh
\* changes no field, acquires no handle and neither emits nor schedules a
\* notification.
C27_ResetDisposesAndClears ==
  [][/\ Reset
        => /\ \A nodeKey \in DOMAIN subscriptionMap :
                Handle(nodeKey) \in live /\ Handle(nodeKey) \notin live'
           /\ redisposed' = {}
           /\ FreshSnapshot'
     /\ \A promise \in promises :
          (/\ FreshSnapshot
           /\ \/ FetchRejected(promise)
              \/ \E childKeys \in Listings(promise.key),
                    watch \in WatchOutcomes(promise.key) :
                   FetchResolved(promise, childKeys, watch))
          => /\ UNCHANGED dataVars
             /\ live' = live
             /\ timer' = timer
             /\ emits' = 0]_vars

\* reset has been called on a store that held subscriptions and had listings
\* in flight: the snapshot is fresh, no handle is live, and a listing is
\* still to settle.
C27_Witness ==
  /\ steps = 2
  /\ FreshSnapshot
  /\ live = {}
  /\ redisposed = {}
  /\ promises # {}
  /\ Cardinality(promises) < Cardinality(DirKeys)

\* The store keeps nothing for the directory nodeKey: no child list, no
\* subscription, no expansion and no selection.
Unknown(nodeKey) ==
  /\ ~Has(childKeyMap, nodeKey)
  /\ ~Has(subscriptionMap, nodeKey)
  /\ \A r \in DOMAIN expandedKeysByRoot : nodeKey \notin expandedKeysByRoot[r]
  /\ \A r \in DOMAIN selectedKeysByRoot : nodeKey \notin Range(selectedKeysByRoot[r])

\* The store keeps no state for the root rootKey.
Stateless(rootKey) ==
  /\ ~Has(childKeyMap, rootKey)
  /\ ~Has(expandedKeysByRoot, rootKey)
  /\ ~Has(selectedKeysByRoot, rootKey)
  /\ ~Has(vcsStatusesByRoot, rootKey)

\* C28: _purgeDirectory of a key, and _purgeRoot of a root, of which the store
\* keeps nothing change nothing; and _purgeDirectory applied twice leaves the
\* store that one application leaves, the live and the disposed handles
\* included.
C28_PurgeIsIdempotent ==
  \A nodeKey \in DirKeys :
    /\ Unknown(nodeKey) => _purgeDirectory(S, nodeKey) = S
    /\ Stateless(nodeKey) => _purgeRoot(S, nodeKey) = S
    /\ _purgeDirectory(_purgeDirectory(S, nodeKey), nodeKey)
         = _purgeDirectory(S, nodeKey)

\* AD is cached with a cached child directory, watched, expanded and holds a
\* selected key, and ADE is unknown: purging AD disposes handles and changes
\* the store, and purging it again changes nothing more.
C28_Witness ==
  /\ Truthy(childKeyMap, AD) /\ Truthy(childKeyMap, ADE)
  /\ Has(subscriptionMap, AD) /\ Handle(AD) \in live
  /\ \E r \in DOMAIN expandedKeysByRoot : AD \in expandedKeysByRoot[r]
  /\ _purgeDirectory(S, AD).live # live
  /\ ~Has(_purgeDirectory(S, AD).childKeyMap, ADE)
  /\ _purgeDirectory(S, AD).redisposed = {}
  /\ _purgeDirectory(_purgeDirectory(S, AD), AD) = _purgeDirectory(S, AD)

\* The step is the listing of promise.key resolving with childKeys under a
\* registered root: a callback, which settles the promise.
ResolvesUnderRoot(promise, childKeys) ==
  /\ steps' = steps
  /\ promise \notin promises'
  /\ getRootForKey(S, promise.key) # NoKey
  /\ \E watch \in WatchOutcomes(promise.key) :
       FetchResolved(promise, childKeys, watch)

\* The step is createChild(nodeKey, childKey): an external call.
Creates(nodeKey, childKey) ==
  /\ steps' = steps + 1
  /\ CreateChild(nodeKey, childKey)

\* The children of nodeKey that are in its old list and in childKeys.
Kept(nodeKey, childKeys) ==
  IF Truthy(childKeyMap, nodeKey)
  THEN Range(childKeyMap[nodeKey]) \cap Range(childKeys)
  ELSE {}

\* The step leaves what the store holds for key as it was.
KeepsState(key) ==
  /\ Has(childKeyMap', key) <=> Has(childKeyMap, key)
  /\ Has(childKeyMap, key) => childKeyMap'[key] = childKeyMap[key]
  /\ Has(subscriptionMap', key) <=> Has(subscriptionMap, key)
  /\ Has(subscriptionMap, key)
     => /\ subscriptionMap'[key] = subscriptionMap[key]
        /\ Handle(key) \in live' <=> Handle(key) \in live
  /\ key \in isDirtyMap' <=> key \in isDirtyMap
  /\ \A r \in DOMAIN expandedKeysByRoot :
       /\ Has(expandedKeysByRoot', r)
       /\ key \in expandedKeysByRoot'[r] <=> key \in expandedKeysByRoot[r]
  /\ \A r \in DOMAIN selectedKeysByRoot :
       /\ Has(selectedKeysByRoot', r)
       /\ key \in Range(selectedKeysByRoot'[r])
            <=> key \in Range(selectedKeysByRoot[r])

\* The step has purged the directories of the old list of nodeKey that
\* childKeys lacks, with the directories of their cached subtrees, and has
\* kept the state of the children that are in both lists.
PurgesAndKeeps(nodeKey, childKeys) ==
  /\ \A k \in Purged(nodeKey, childKeys) :
       \A d \in Subtree(childKeyMap, k) : isDirKey(d) => Forgotten(d)
  /\ \A c \in Kept(nodeKey, childKeys) : KeepsState(c)

\* C29: when a child list is installed for a key, by a resolved listing or by
\* createChild, every directory of the old list that the new list lacks is
\* purged, and with it the directories of its cached subtree (child list,
\* subscription and handle, expansion and selection under every root), and
\* the children that are in both lists keep their state.
C29_MissingChildrenPurged ==
  [][/\ \A promise \in promises :
          \A childKeys \in Listings(promise.key) :
            ResolvesUnderRoot(promise, childKeys)
            => PurgesAndKeeps(promise.key, childKeys)
     /\ \A nodeKey \in DirKeys, childKey \in Keys :
          Creates(nodeKey, childKey)
          => PurgesAndKeeps(nodeKey, <<childKey>>)]_vars

\* The listing of A has resolved without AD while AD and ADE were cached,
\* watched and expanded: nothing is left of them.
C29_Witness ==
  /\ steps = 1
  /\ rootKeys = <<A>>
  /\ childKeyMap = (A :> <<AF>>)
  /\ expandedKeysByRoot = (A :> {A})
  /\ DOMAIN subscriptionMap = {A}
  /\ \A handle \in live : handle.key = A

\* C30: createChild leaves the one child as the child list of the directory
\* and the directory dirty, so that a getChildKeys call that follows asks for
\* its listing (the directory is loading after the call, with a new listing
\* in flight unless it was loading already), and a listing of a dirty
\* directory that resolves under a registered root clears the dirty mark and
\* installs the listing.
C30_CreatedChildIsProvisional ==
  [][/\ \A nodeKey \in DirKeys, childKey \in Keys :
          Creates(nodeKey, childKey)
          => /\ Has(childKeyMap', nodeKey)
             /\ childKeyMap'[nodeKey] = <<childKey>>
             /\ nodeKey \in isDirtyMap'
             /\ \A rootKey \in Range(rootKeys') :
                  startsWith(nodeKey, rootKey)
                  => LET t == getChildKeys(S', rootKey, nodeKey)
                     IN /\ Has(t.isLoadingMap, nodeKey)
                        /\ ~Has(isLoadingMap', nodeKey)
                           => \E p \in t.promises \ promises' : p.key = nodeKey
     /\ \A promise \in promises :
          \A childKeys \in Listings(promise.key) :
            (/\ promise.key \in isDirtyMap
             /\ ResolvesUnderRoot(promise, childKeys))
            => /\ promise.key \notin isDirtyMap'
               /\ Has(childKeyMap', promise.key)
               /\ childKeyMap'[promise.key] = childKeys]_vars

\* createChild has left AD as the only child of the root A, which is dirty
\* and not loading.
C30_Witness ==
  /\ steps = 2
  /\ rootKeys = <<A>>
  /\ Has(childKeyMap, A) /\ childKeyMap[A] = <<AD>>
  /\ A \in isDirtyMap
  /\ ~Has(isLoadingMap, A)

----------------------------------------------------------------------------
\* Properties of the tracked node.

\* C31: a selection made while a node is tracked (SET_SELECTED_NODE of a root,
\* SET_SELECTED_NODES_FOR_TREE naming a root of the list) leaves no node
\* tracked, and the handler emits 'change' itself, before it returns, as a
\* flushing write does.
C31_SelectionClearsTrackedAtOnce ==
  trackedNode # <<>>
  => /\ \A rootKey \in Range(rootKeys), nodeKeys \in SelectionChoices :
          (\A k \in Range(nodeKeys) : startsWith(k, rootKey))
          => LET s == _setSelectedKeys(S, rootKey, nodeKeys, nodeKeys # <<>>)
             IN s.trackedNode = <<>> /\ s.emits >= 1
     /\ \A selectedKeysByRoot_ \in ForestChoices :
          (/\ DOMAIN selectedKeysByRoot_ \subseteq Range(rootKeys)
           /\ DOMAIN selectedKeysByRoot_ # {})
          => LET s == _setSelectedKeysByRoot(S, selectedKeysByRoot_)
             IN s.trackedNode = <<>> /\ s.emits >= 1

\* A step of SET_SELECTED_NODE or SET_SELECTED_NODES_FOR_TREE, or one that
\* takes a key out of a selection (the unselecting of Collapse and of a purge).
SelectionChange ==
  \/ selectedKeysByRoot' # selectedKeysByRoot
  \/ \E rootKey \in DirKeys, nodeKeys \in SelectionChoices :
       SetSelectedKeys(rootKey, nodeKeys)
  \/ \E selectedKeysByRoot_ \in ForestChoices :
       SetSelectedKeysByRoot(selectedKeysByRoot_)

\* A tracked node is reset only by a selection change, by the replacement of
\* the store (reset and loadData start from the defaults, where isLoadingMap
\* is empty), or by a step that leaves isLoadingMap empty.
TrackedNodeKept ==
  [][(trackedNode # <<>> /\ trackedNode' = <<>>)
     => \/ SelectionChange
        \/ Replacing
        \/ DOMAIN isLoadingMap' = {}]_vars

\* C32: a tracked node stays set while a listing is loading (it is reset only
\* by a selection change or when isLoadingMap is empty), and a node tracked
\* while listings are in flight is eventually reset once they have settled.
C32_TrackedNodeLifetime ==
  /\ TrackedNodeKept
  /\ (trackedNode # <<>> /\ promises # {}) ~> (trackedNode = <<>>)

----------------------------------------------------------------------------
\* Properties of the loading state.

\* C33: isLoadingMap holds no entry of a listing that has settled: the listing
\* stored for a key is in flight, in every reachable state, whatever the roots
\* were when a listing settled.
C33_NoEntryOfSettledListing ==
  \A nodeKey \in DOMAIN isLoadingMap :
    [id |-> isLoadingMap[nodeKey], key |-> nodeKey] \in promises

----------------------------------------------------------------------------
\* Properties of the change signals.

\* The store after the watch callback of nodeKey has run and the listing
\* promise, which was in flight before the callback, has then resolved with
\* childKeys.
SignalledThenResolved(nodeKey, promise, childKeys, watch) ==
  LET signalled == _onDirectoryChange(S, nodeKey)
  IN fetchResolved([signalled EXCEPT !.promises = @ \ {promise}],
                   nodeKey, childKeys, watch)

\* A listing of nodeKey is still to come in store s: one is in flight, or the
\* key is marked dirty, so that the next getChildKeys asks for one.
ListingToCome(s, nodeKey) ==
  \/ \E p \in s.promises : p.key = nodeKey
  \/ nodeKey \in s.isDirtyMap

\* C34: no change signal is lost. In every reachable state, for a key with a
\* live watch handle: the watch callback starts a listing of the key when none
\* is stored as loading; and when one is (it was asked for before the signal
\* and may have read the directory before the change), the store does not
\* settle on it: after the callback and the settlement of that listing a
\* listing of the key is still to come.
C34_ChangeSignalNotLost ==
  \A handle \in live :
    LET nodeKey == handle.key
    IN /\ ~Has(isLoadingMap, nodeKey)
          => \E p \in _onDirectoryChange(S, nodeKey).promises :
               p \notin promises /\ p.key = nodeKey
       /\ \A promise \in Pending(nodeKey) :
            (/\ Has(isLoadingMap, nodeKey)
             /\ isLoadingMap[nodeKey] = promise.id
             /\ getRootForKey(S, nodeKey) # NoKey)
            => \A childKeys \in Listings(nodeKey), watch \in WatchOutcomes(nodeKey) :
                 ListingToCome(
                   SignalledThenResolved(nodeKey, promise, childKeys, watch),
                   nodeKey)

----------------------------------------------------------------------------
\* Properties of Collapse.

\* C35: in every reachable state, for a registered root and a directory key
\* below it, a COLLAPSE_NODE of the key once it is collapsed leaves the
\* expanded sets, the selections and the saved lists of previouslyExpanded as
\* the first COLLAPSE_NODE left them, and so EXPAND_NODE after two Collapses
\* gives the expanded set it gives after one.
C35_CollapseIsIdempotent ==
  \A rootKey \in Range(rootKeys), nodeKey \in DirKeys :
    startsWith(nodeKey, rootKey)
    => LET once == _collapseNode(S, rootKey, nodeKey)
           twice == _collapseNode(once, rootKey, nodeKey)
       IN /\ twice.expandedKeysByRoot = once.expandedKeysByRoot
          /\ twice.selectedKeysByRoot = once.selectedKeysByRoot
          /\ twice.previouslyExpanded = once.previouslyExpanded
          /\ _getExpandedKeys(_expandNode(twice, rootKey, nodeKey), rootKey)
               = _getExpandedKeys(_expandNode(once, rootKey, nodeKey), rootKey)

----------------------------------------------------------------------------
\* Properties of the delivery of notifications.

\* C36: no change made through _set stays unannounced. A step that changes
\* the store emits 'change' itself or leaves a setImmediate callback pending,
\* unless it is a reset or a loadData, which assign _data without _set; and a
\* pending callback is followed by a delivery: it runs, or a flushing write
\* cancels it and emits at once, also when later writes have re-armed it.
C36_EveryChangeAnnounced ==
  /\ [][(dataVars' # dataVars /\ emits' = 0 /\ timer' = 0) => Replacing]_vars
  /\ (timer >= 1) ~> (timer = 0 /\ emits >= 1)

\* Two dispatches have changed the store, the second re-arming the callback
\* or following its run, and the notification that covers both is delivered.
C36_Witness ==
  /\ steps = 2
  /\ rootKeys = <<A, AD>>
  /\ Has(selectedKeysByRoot, A) /\ selectedKeysByRoot[A] = <<ADG>>
  /\ isLoadingMap = EmptyMap
  /\ timer = 0
  /\ emits = 1

----------------------------------------------------------------------------
\* Properties of the clang server connection.

\* C37: the service keeps at most one connection and recovers from an exit
\* of the server. At most one connection is being made at any time (calls of
\* _connect made meanwhile share it, one process is spawned for it), and the
\* service holds no connection whose server process has closed: 'close'
\* resets _asyncConnection, so that the next _connect spawns a new server.
C37_OneLiveConnection ==
  /\ Cardinality({id \in DOMAIN connections :
                    connections[id].state \in {"finding", "starting"}}) <= 1
  /\ \A r \in DOMAIN requests :
       requests[r].pc = "connecting" /\ _asyncConnection # 0
       => requests[r].connection = _asyncConnection
  /\ \A id \in DOMAIN connections :
       connections[id].child = "closed" => _asyncConnection # id
====
